---- MODULE Spec2Model ----
(***************************************************************************)
(* Query orchestration pipeline of the AI service (aiService.js): the     *)
(* LangGraph state graph built by AIService._buildGraph, its seven node   *)
(* functions, and AIService.processQuery which invokes the compiled graph *)
(* and turns the final state (or a rejected invoke) into the result.      *)
(*                                                                         *)
(* External calls (context builder, classifier, generator, judge, store)  *)
(* are inputs: every action draws the outcome of its call from a small    *)
(* set.  Texts are abstracted to tokens; what is kept is which value a    *)
(* field holds (null, empty text, the first answer, the improved answer). *)
(***************************************************************************)
EXTENDS Integers, Sequences, FiniteSets, TLC

VARIABLES
    state,        \* the graph state threaded through the nodes
    pc,           \* "START", the node to execute next, "END" or "returned"
    steps,        \* node executions (supersteps) of compiledGraph.invoke
    result,       \* the object processQuery returned, once pc = "returned"
    trace,        \* history: the nodes executed so far, in order
    lastOutcome,  \* history: outcome of the external call of the last node
    firstScore,   \* history: score of the first judgement of the run
    calls,        \* history: requests sent to each external model, the query
                  \* type handed to the context builder and the answer text
                  \* of the last judge request
    store,        \* conversation store and farmer profile counter
    cancel,       \* history: whether and when the caller abandoned the request
    profile,      \* the farmer profile document and the runs persisting to it
    builder,      \* one buildEnrichedContext call and its sub-fetches
    series,       \* one metric series and the trend figures computed from it
    formatter     \* one answer text and what the response formatter extracts

\* the variables of one pipeline run, and those of the other components
pipeline == <<state, pc, steps, result, trace, lastOutcome, firstScore, calls, store, cancel>>
others == <<profile, builder, series, formatter>>
vars == <<pipeline, others>>

----------------------------------------------------------------------------
(* JavaScript values *)

Null == "null"
Undefined == "undefined"
NoScore == -1          \* a parsed judgement without a numeric score field

\* Supersteps compiledGraph.invoke runs before it rejects with a
\* GraphRecursionError (the graph is compiled and invoked without a
\* recursionLimit, so the runtime default applies).
RecursionLimit == 25

Nodes == {"node1_contextBuilder", "node2_queryClassifier",
          "node3_responseGenerator", "node4_judgeEvaluator",
          "node4_1_enhancedRetry", "node5_responseFormatter",
          "node6_storageAndLearning"}

NullClassification ==
    [isNull |-> TRUE, type |-> Undefined, complexity |-> Undefined, subQueries |-> 0]

NullJudgement ==
    [isNull |-> TRUE, score |-> NoScore, hasFeedback |-> FALSE, reasoning |-> Undefined]

NullFormatted ==
    [isNull |-> TRUE, response |-> Null, insights |-> Undefined,
     actions |-> Undefined, alerts |-> Undefined]

\* variant: the run starts with a type guessed from the question
InitialState_guessedType ==
    [queryType         |-> "watering",
     enrichedContext   |-> Null,
     classification    |-> NullClassification,
     aiResponse        |-> Null,
     judgement         |-> NullJudgement,
     retryCount        |-> 0,
     formattedResponse |-> NullFormatted,
     conversationId    |-> Null,
     stage             |-> "start",
     error             |-> Null]

\* processQuery's initialState
InitialState ==
    [queryType         |-> "general",
     enrichedContext   |-> Null,
     classification    |-> NullClassification,
     aiResponse        |-> Null,
     judgement         |-> NullJudgement,
     retryCount        |-> 0,
     formattedResponse |-> NullFormatted,
     conversationId    |-> Null,
     stage             |-> "start",
     error             |-> Null]

----------------------------------------------------------------------------
(* NODE 1: Context Builder *)

\* What the awaited buildEnrichedContext yields: the full bundle, the minimal
\* bundle of its own catch block (query, type and snapshot only), or a
\* rejection, which is what node1's catch block handles.
ContextOutcomes == {"enriched", "minimal", "throw"}

node1_contextBuilder(s, o) ==
    IF o = "throw"
    THEN [s EXCEPT !.error = "Context building failed", !.stage = "error"]
    ELSE [s EXCEPT !.enrichedContext = o, !.stage = "context_built"]

----------------------------------------------------------------------------
(* NODE 2: Query Classifier *)

\* Representative JSON values the classifier's reply can parse to.
ClassifierReplies ==
    { [isNull |-> FALSE, type |-> "watering",  complexity |-> "simple",  subQueries |-> 0],
      [isNull |-> FALSE, type |-> "watering",  complexity |-> "complex", subQueries |-> 1],
      [isNull |-> FALSE, type |-> "pesticide", complexity |-> "simple",  subQueries |-> 0],
      [isNull |-> FALSE, type |-> "general",   complexity |-> "tricky",  subQueries |-> 0],
      [isNull |-> FALSE, type |-> "watering",  complexity |-> Undefined, subQueries |-> 0],
      NullClassification }

ClassifierOutcomes == {"throw", "unparseable", "parsed"}

DefaultClassification(s) ==
    [isNull |-> FALSE,
     type |-> IF s.queryType \in {Null, Undefined, ""} THEN "general" ELSE s.queryType,
     complexity |-> "simple",
     subQueries |-> 0]

\* variant: a failed classifier call is treated as fatal, as in Context and
\* Generate (error recorded, no classification substituted)
node2_queryClassifier_fatal(s, o, reply) ==
    IF o = "parsed"
    THEN [s EXCEPT !.classification = reply, !.stage = "classified"]
    ELSE IF o = "unparseable"
    THEN [s EXCEPT !.classification = DefaultClassification(s), !.stage = "classified"]
    ELSE [s EXCEPT !.error = "Classification failed", !.stage = "error"]

node2_queryClassifier(s, o, reply) ==
    IF o = "parsed"
    THEN [s EXCEPT !.classification = reply, !.stage = "classified"]
    ELSE [s EXCEPT !.classification = DefaultClassification(s), !.stage = "classified"]

----------------------------------------------------------------------------
(* NODE 3: Response Generator *)

GeneratorOutcomes == {"fail", "empty", "text"}

\* classification.complexity / complexity.toUpperCase() are evaluated before
\* the try block: a null classification or a missing complexity makes the
\* node function throw.
node3_throws(s) ==
    s.classification.isNull \/ s.classification.complexity = Undefined

\* formatContextForAI destructures the context before the generator is called
node3_requestsGenerator(s) == s.enrichedContext # Null

node3_responseGenerator(s, o) ==
    IF node3_requestsGenerator(s) /\ o # "fail"
    THEN [s EXCEPT !.aiResponse = IF o = "text" THEN "answer" ELSE "",
                   !.stage = "response_generated",
                   !.retryCount = 0]
    ELSE [s EXCEPT !.error = "Response generation failed", !.stage = "error"]

----------------------------------------------------------------------------
(* NODE 4: Judge Evaluator *)

JudgeOutcomes == {"fail", "unparseable", "parsed"}

\* Representative scores of a parsed judgement; NoScore is a reply whose
\* JSON carries no numeric score.
Scores == {84, 85, NoScore}

Threshold == 85
NeutralScore == 75

\* getJudgePrompt reads context.currentSensors before the judge is called
node4_requestsJudge(s) == s.enrichedContext # Null

UnavailableJudgement ==
    [isNull |-> FALSE, score |-> NeutralScore, hasFeedback |-> FALSE,
     reasoning |-> "Judge unavailable, proceeding with caution"]

UnparsedJudgement ==
    [isNull |-> FALSE, score |-> NeutralScore, hasFeedback |-> TRUE,
     reasoning |-> "Evaluation failed"]

ParsedJudgement(score, feedback) ==
    [isNull |-> FALSE, score |-> score, hasFeedback |-> feedback,
     reasoning |-> "judge reasoning"]

\* judgement.score >= 85 in JavaScript: false when the score is missing
ScoreApproves(j) == (~j.isNull) /\ j.score # NoScore /\ j.score >= Threshold

node4_judgeEvaluator(s, o, score, feedback) ==
    IF node4_requestsJudge(s) /\ o # "fail"
    THEN LET j == IF o = "parsed" THEN ParsedJudgement(score, feedback)
                  ELSE UnparsedJudgement
         IN [s EXCEPT !.judgement = j,
                      !.stage = IF ScoreApproves(j) THEN "judge_approved"
                                ELSE "judge_rejected"]
    ELSE [s EXCEPT !.judgement = UnavailableJudgement,
                   !.stage = "judge_approved_with_warning"]

\* variant: the edge approves only scores above the threshold
JudgeRoute_strict(s) ==
    IF (~s.judgement.isNull) /\ s.judgement.score > Threshold
    THEN "node5_responseFormatter"
    ELSE "node4_1_enhancedRetry"

\* Conditional edge: Judge decision
JudgeRoute(s) ==
    IF ScoreApproves(s.judgement) THEN "node5_responseFormatter"
    ELSE "node4_1_enhancedRetry"

----------------------------------------------------------------------------
(* NODE 4.1: Enhanced Retry *)

RetryOutcomes == {"fail", "empty", "text"}

\* getRetryPrompt maps over judgeFeedback.weaknesses / suggestions and reads
\* context.currentSensors: it throws, before the generator is called, when
\* the judgement carries no feedback lists or the context is null.
node4_1_requestsGenerator(s) ==
    s.retryCount < 1 /\ s.judgement.hasFeedback /\ s.enrichedContext # Null

\* variant: the counter is bumped once per generator reply field tried
\* (content, then text), so a successful retry adds two
node4_1_enhancedRetry_doubleCount(s, o) ==
    IF s.retryCount >= 1
    THEN [s EXCEPT !.stage = "max_retries_reached"]
    ELSE IF node4_1_requestsGenerator(s) /\ o # "fail"
    THEN [s EXCEPT !.aiResponse = IF o = "text" THEN "improved" ELSE s.aiResponse,
                   !.retryCount = s.retryCount + 2,
                   !.stage = "response_improved"]
    ELSE [s EXCEPT !.stage = "retry_failed"]

node4_1_enhancedRetry(s, o) ==
    IF s.retryCount >= 1
    THEN [s EXCEPT !.stage = "max_retries_reached"]
    ELSE IF node4_1_requestsGenerator(s) /\ o # "fail"
    THEN [s EXCEPT !.aiResponse = IF o = "text" THEN "improved" ELSE s.aiResponse,
                   !.retryCount = s.retryCount + 1,
                   !.stage = "response_improved"]
    ELSE [s EXCEPT !.stage = "retry_failed"]

\* Conditional edge: After retry
RetryRoute(s) ==
    IF s.retryCount >= 1 THEN "node5_responseFormatter"
    ELSE "node4_judgeEvaluator"

----------------------------------------------------------------------------
(* NODE 5: Response Formatter *)

\* _extractInsights destructures the context and _extractAlerts calls
\* response.toLowerCase(): extraction throws exactly when the context or the
\* answer is null.
node5_extractionThrows(s) == s.enrichedContext = Null \/ s.aiResponse = Null

\* variant: the formatter stores a cut-down bundle back into the state
node5_responseFormatter_trimsContext(s) ==
    [s EXCEPT !.enrichedContext = IF @ = Null THEN Null ELSE "minimal",
              !.formattedResponse =
                  [isNull |-> FALSE, response |-> s.aiResponse,
                   insights |-> "empty", actions |-> "empty", alerts |-> "empty"],
              !.stage = "response_formatted"]

node5_responseFormatter(s) ==
    IF node5_extractionThrows(s)
    THEN [s EXCEPT !.formattedResponse =
                       [isNull |-> FALSE, response |-> s.aiResponse,
                        insights |-> "empty", actions |-> "empty", alerts |-> "empty"],
                   !.stage = "response_formatted_with_error"]
    ELSE [s EXCEPT !.formattedResponse =
                       [isNull |-> FALSE, response |-> s.aiResponse,
                        insights |-> "extracted", actions |-> "extracted",
                        alerts |-> "extracted"],
                   !.stage = "response_formatted"]

----------------------------------------------------------------------------
(* NODE 6: Storage & Learning *)

StoreOutcomes == {"ok", "create_fail", "profile_fail"}

\* the query types of ConversationSchema.queryType and of the profile's
\* patterns.query_frequency (the same eight)
QueryTypes == {"watering", "disease", "fertilizer", "pest", "weather",
               "general", "ph", "nutrients"}

\* ConversationSchema validation, run by Conversation.create: queryType and
\* queryComplexity are enums, aiResponse is required (a null or empty string
\* fails a required String)
ConversationValid(s) ==
    /\ s.classification.type \in QueryTypes
    /\ s.classification.complexity \in {"simple", "complex"}
    /\ s.aiResponse \notin {Null, ""}

\* the outcome of the store call for the record built from state s
StoreResult(s, o) == IF ConversationValid(s) THEN o ELSE "create_fail"

NoQueries == [t \in QueryTypes |-> 0]

\* variant: only the total is counted, the per-type counter is left alone
incrementQueryType_totalOnly(p, queryType) ==
    [p EXCEPT !.total_queries = @ + 1]

\* FarmProfileSchema.methods.incrementQueryType (on the loaded document)
incrementQueryType(p, queryType) ==
    [p EXCEPT !.query_frequency =
                  IF queryType \in DOMAIN p.query_frequency
                  THEN [p.query_frequency EXCEPT ![queryType] = @ + 1]
                  ELSE p.query_frequency,
              !.total_queries = @ + 1]

\* conversationData reads enrichedContext.currentSensors before the store
\* is called
node6_callsStore(s) == s.enrichedContext # Null

\* MemoryService.storeConversation: Conversation.create, then the profile's
\* incrementQueryType; an error of either is rethrown.
storeConversation(st, queryType, o) ==
    IF o = "create_fail" THEN st
    ELSE IF o = "profile_fail"
    THEN [st EXCEPT !.conversations = st.conversations + 1]
    ELSE incrementQueryType([st EXCEPT !.conversations = st.conversations + 1],
                            queryType)

\* variant: a failed store is recorded in the error field, as Context and
\* Generate record their failures
node6_storageAndLearning_recordsError(s, o) ==
    IF node6_callsStore(s) /\ StoreResult(s, o) = "ok"
    THEN [s EXCEPT !.conversationId = "conv_1", !.stage = "complete"]
    ELSE [s EXCEPT !.error = "Storage failed", !.stage = "complete_with_error"]

node6_storageAndLearning(s, o) ==
    IF node6_callsStore(s) /\ StoreResult(s, o) = "ok"
    THEN [s EXCEPT !.conversationId = "conv_1", !.stage = "complete"]
    ELSE [s EXCEPT !.stage = "complete_with_error"]

----------------------------------------------------------------------------
(* MAIN ORCHESTRATOR: what processQuery returns *)

Falsy(v) == v \in {Null, Undefined, ""}

\* the object built from the final state of a completed graph run
CompletedResult(s) ==
    [success        |-> Falsy(s.error),
     conversationId |-> s.conversationId,
     response       |-> IF s.formattedResponse.isNull \/ Falsy(s.formattedResponse.response)
                        THEN "Unable to process query"
                        ELSE s.formattedResponse.response,
     insights       |-> IF s.formattedResponse.isNull THEN "empty"
                        ELSE s.formattedResponse.insights,
     actions        |-> IF s.formattedResponse.isNull THEN "empty"
                        ELSE s.formattedResponse.actions,
     alerts         |-> IF s.formattedResponse.isNull THEN "empty"
                        ELSE s.formattedResponse.alerts,
     processingTime |-> "ms",
     error          |-> s.error]

\* the object built in processQuery's catch block when invoke rejects
CaughtResult(message) ==
    [success        |-> FALSE,
     error          |-> message,
     response       |-> "I apologize, but I encountered an issue processing your query. Please try again.",
     processingTime |-> "ms"]

NoResult == [pending |-> TRUE]

----------------------------------------------------------------------------
(* The run: processQuery invokes the compiled graph *)

NoJudgementYet == -2

InTrace(node) == \E i \in 1..Len(trace) : trace[i] = node

Executions(node) == Cardinality({i \in 1..Len(trace) : trace[i] = node})

\* the other components are idle during a pipeline run
ProfileIdle == profile = [idle |-> TRUE]
BuilderIdle == builder = [idle |-> TRUE]
SeriesIdle == series = [idle |-> TRUE]
FormatterIdle == formatter = [idle |-> TRUE]
OthersIdle == ProfileIdle /\ BuilderIdle /\ SeriesIdle /\ FormatterIdle

\* processQuery has been called and is about to invoke the graph
PipelineInit ==
    /\ state = InitialState
    /\ pc = "START"
    /\ steps = 0
    /\ result = NoResult
    /\ trace = << >>
    /\ lastOutcome = "none"
    /\ firstScore = NoJudgementYet
    /\ calls = [classifier |-> 0, generator |-> 0, judge |-> 0, retry |-> 0, store |-> 0,
                context |-> "none", judged |-> "none"]
    /\ store = [conversations |-> 0, query_frequency |-> NoQueries, total_queries |-> 0]
    /\ cancel = "none"

Init == PipelineInit /\ OthersIdle

\* a node may run while the superstep budget lasts
Runs(node) == pc = node /\ steps < RecursionLimit

Executed(node) ==
    /\ steps' = steps + 1
    /\ trace' = Append(trace, node)

\* compiledGraph.invoke(initialState): edge START -> node1_contextBuilder
Invoke ==
    /\ pc = "START"
    /\ pc' = "node1_contextBuilder"
    /\ UNCHANGED <<state, steps, result, trace, lastOutcome, firstScore, calls, store, cancel, others>>

Node1 ==
    /\ Runs("node1_contextBuilder")
    /\ \E o \in ContextOutcomes :
          /\ state' = node1_contextBuilder(state, o)
          /\ lastOutcome' = o
    /\ calls' = [calls EXCEPT !.context = state.queryType]
    /\ pc' = "node2_queryClassifier"
    /\ Executed("node1_contextBuilder")
    /\ UNCHANGED <<result, firstScore, store, cancel, others>>

Node2 ==
    /\ Runs("node2_queryClassifier")
    /\ \E o \in ClassifierOutcomes, reply \in ClassifierReplies :
          /\ state' = node2_queryClassifier(state, o, reply)
          /\ lastOutcome' = o
    /\ calls' = [calls EXCEPT !.classifier = @ + 1]
    /\ pc' = "node3_responseGenerator"
    /\ Executed("node2_queryClassifier")
    /\ UNCHANGED <<result, firstScore, store, cancel, others>>

Node3 ==
    /\ Runs("node3_responseGenerator")
    /\ IF node3_throws(state)
       THEN \* the node function throws: invoke rejects, processQuery catches
            /\ lastOutcome' = "throw"
            /\ result' = CaughtResult("TypeError")
            /\ pc' = "returned"
            /\ UNCHANGED <<state, calls>>
       ELSE /\ \E o \in GeneratorOutcomes :
                  /\ state' = node3_responseGenerator(state, o)
                  /\ lastOutcome' = IF node3_requestsGenerator(state) THEN o ELSE "fail"
            /\ calls' = IF node3_requestsGenerator(state)
                        THEN [calls EXCEPT !.generator = @ + 1] ELSE calls
            /\ pc' = "node4_judgeEvaluator"
            /\ UNCHANGED result
    /\ Executed("node3_responseGenerator")
    /\ UNCHANGED <<firstScore, store, cancel, others>>

Node4 ==
    /\ Runs("node4_judgeEvaluator")
    /\ \E o \in JudgeOutcomes, score \in Scores, feedback \in BOOLEAN :
          /\ state' = node4_judgeEvaluator(state, o, score, feedback)
          /\ lastOutcome' = IF node4_requestsJudge(state) THEN o ELSE "fail"
    /\ calls' = IF node4_requestsJudge(state)
                THEN [calls EXCEPT !.judge = @ + 1, !.judged = state.aiResponse]
                ELSE calls
    /\ firstScore' = IF firstScore = NoJudgementYet THEN state'.judgement.score
                     ELSE firstScore
    /\ pc' = JudgeRoute(state')
    /\ Executed("node4_judgeEvaluator")
    /\ UNCHANGED <<result, store, cancel, others>>

Node4_1 ==
    /\ Runs("node4_1_enhancedRetry")
    /\ \E o \in RetryOutcomes :
          /\ state' = node4_1_enhancedRetry(state, o)
          /\ lastOutcome' = IF state.retryCount >= 1 THEN "skipped"
                            ELSE IF node4_1_requestsGenerator(state) THEN o
                            ELSE "fail"
    /\ calls' = IF node4_1_requestsGenerator(state)
                THEN [calls EXCEPT !.retry = @ + 1] ELSE calls
    /\ pc' = RetryRoute(state')
    /\ Executed("node4_1_enhancedRetry")
    /\ UNCHANGED <<result, firstScore, store, cancel, others>>

Node5 ==
    /\ Runs("node5_responseFormatter")
    /\ state' = node5_responseFormatter(state)
    /\ lastOutcome' = IF node5_extractionThrows(state) THEN "fail" ELSE "ok"
    /\ pc' = "node6_storageAndLearning"
    /\ Executed("node5_responseFormatter")
    /\ UNCHANGED <<result, firstScore, calls, store, cancel, others>>

Node6 ==
    /\ Runs("node6_storageAndLearning")
    /\ \E o \in StoreOutcomes :
          /\ state' = node6_storageAndLearning(state, o)
          /\ store' = IF node6_callsStore(state)
                      THEN storeConversation(store, state.classification.type,
                                             StoreResult(state, o))
                      ELSE store
          /\ lastOutcome' = IF node6_callsStore(state) /\ StoreResult(state, o) = "ok"
                            THEN "ok" ELSE "fail"
    /\ calls' = IF node6_callsStore(state)
                THEN [calls EXCEPT !.store = @ + 1] ELSE calls
    /\ pc' = "END"
    /\ Executed("node6_storageAndLearning")
    /\ UNCHANGED <<result, firstScore, cancel, others>>

\* invoke resolves with the final state: processQuery builds the result
Return ==
    /\ pc = "END"
    /\ result' = CompletedResult(state)
    /\ pc' = "returned"
    /\ UNCHANGED <<state, steps, trace, lastOutcome, firstScore, calls, store, cancel, others>>

\* the superstep budget is used up before END: invoke rejects with a
\* GraphRecursionError, which processQuery's catch block turns into a result
RecursionError ==
    /\ pc \in Nodes
    /\ steps >= RecursionLimit
    /\ result' = CaughtResult("GraphRecursionError")
    /\ pc' = "returned"
    /\ UNCHANGED <<state, steps, trace, lastOutcome, firstScore, calls, store, cancel, others>>

Next ==
    \/ Invoke
    \/ Node1
    \/ Node2
    \/ Node3
    \/ Node4
    \/ Node4_1
    \/ Node5
    \/ Node6
    \/ Return
    \/ RecursionError

Spec == Init /\ [][Next]_vars

\* The caller abandons the request (the HTTP client of the chat route
\* disconnects) while processQuery is running.  processQuery takes no abort
\* signal and the route keeps awaiting it, so nothing in the run observes
\* the event; the history variable records whether it fell between the
\* completion of Context and the return of Judge.
CallerCancels ==
    /\ pc \in Nodes
    /\ cancel = "none"
    /\ cancel' = IF InTrace("node1_contextBuilder") /\ ~InTrace("node4_judgeEvaluator")
                 THEN "before_judge_returned" ELSE "other"
    /\ UNCHANGED <<state, pc, steps, result, trace, lastOutcome, firstScore, calls, store, others>>

NextWithCaller ==
    \/ Next
    \/ CallerCancels

SpecWithCaller == Init /\ [][NextWithCaller]_vars

----------------------------------------------------------------------------
TypeOK ==
    /\ pc \in Nodes \cup {"START", "END", "returned"}
    /\ steps \in 0..RecursionLimit
    /\ state.retryCount \in Nat
    /\ Len(trace) = steps

----------------------------------------------------------------------------
(* History helpers *)

\* the step taken is an execution of the node
Executes(node) == pc = node /\ steps' = steps + 1

\* Generate requested an answer from the generator and the request failed
GenerateCallFailed ==
    calls.generator = 1 /\ state.error = "Response generation failed"

\* Context built a bundle and Generate obtained an answer
ContextAndGenerateSucceeded ==
    /\ state.enrichedContext # Null
    /\ calls.generator = 1
    /\ state.error = Null
    /\ InTrace("node4_judgeEvaluator")

----------------------------------------------------------------------------
(* Claims *)

\* C1: in every reachable state of a run, whatever the judge scores and
\* whichever external calls fail, the retry counter is 0 or 1.
C1_RetryCounterAtMostOne == state.retryCount \in {0, 1}

\* a run that retried: the counter reached 1 and the run returned
C1_Witness ==
    /\ pc = "returned"
    /\ state.retryCount = 1
    /\ InTrace("node4_1_enhancedRetry")

\* C2: whenever Judge produces a score >= 85 the next stage executed is
\* Format, whatever the retry counter is; and when the first judgement of a
\* run scores >= 85 the retry stage is never entered in that run.
C2_ApprovedGoesToFormat ==
    /\ [][(Executes("node4_judgeEvaluator") /\ state'.judgement.score >= Threshold)
            => pc' = "node5_responseFormatter"]_vars
    /\ [](firstScore >= Threshold => ~InTrace("node4_1_enhancedRetry"))

\* a run approved on the first pass that went through Format and returned
C2_Witness ==
    /\ pc = "returned"
    /\ firstScore >= Threshold
    /\ Executions("node4_judgeEvaluator") = 1
    /\ InTrace("node5_responseFormatter")

\* C3: if the first judgement scores < 85 the run makes exactly one retry
\* attempt (one request to the generator for an improved answer) and never a
\* second one, whatever the later scores and the outcome of that request.
C3_ExactlyOneRetryAttempt ==
    (firstScore >= 0 /\ firstScore < Threshold) =>
        /\ calls.retry <= 1
        /\ (pc = "returned" => calls.retry = 1)

\* C4: if the judge call fails, Judge substitutes the neutral score 75 with a
\* warning and the next stage executed is Format (the retry stage is not
\* entered).
C4_JudgeFailureGoesToFormat ==
    [][(Executes("node4_judgeEvaluator") /\ lastOutcome' = "fail")
         => /\ state'.judgement.score = NeutralScore
            /\ state'.stage = "judge_approved_with_warning"
            /\ pc' = "node5_responseFormatter"]_vars

\* C5: every run reaches its terminal stage after a bounded number of stage
\* executions fixed by the state machine: Judge is executed at most twice.
C5_JudgeAtMostTwice == Executions("node4_judgeEvaluator") <= 2

\* C6: if Generate's generation call fails the run stops there: Judge, Retry,
\* Format and Persist are not executed, no judge call is made, no record is
\* written, and the result has success false with the failure cause in error.
C6_GenerateFailureStopsRun ==
    GenerateCallFailed =>
        /\ ~InTrace("node4_judgeEvaluator")
        /\ ~InTrace("node4_1_enhancedRetry")
        /\ ~InTrace("node5_responseFormatter")
        /\ ~InTrace("node6_storageAndLearning")
        /\ calls.judge = 0
        /\ store.conversations = 0
        /\ (pc = "returned" =>
              result.success = FALSE /\ result.error = "Response generation failed")

\* C7: for every run in which Context and Generate succeed, processQuery
\* returns success true, whichever of the classifier call, the judge call,
\* the retry generation call, the extraction or the persistence step fails.
C7_DegradableFailuresKeepSuccess ==
    (pc = "returned" /\ ContextAndGenerateSucceeded) => result.success = TRUE

\* C8: if the classifier call fails or its reply cannot be parsed, Classify
\* substitutes the default classification (type "general", complexity
\* "simple", no sub-queries) and the run proceeds to Generate, which takes
\* its simple branch: the failure does not end the run.
C8_ClassifierFailureDefaults ==
    [][(Executes("node2_queryClassifier") /\ lastOutcome' \in {"throw", "unparseable"})
         => /\ state'.classification =
                  [isNull |-> FALSE, type |-> "general",
                   complexity |-> "simple", subQueries |-> 0]
            /\ pc' = "node3_responseGenerator"
            /\ ~node3_throws(state')
            /\ state'.error = state.error]_vars

\* Classify has just failed and Generate is about to run on the default
C8_Witness ==
    /\ pc = "node3_responseGenerator"
    /\ lastOutcome \in {"throw", "unparseable"}
    /\ state.stage = "classified"
    /\ state.classification.complexity = "simple"

\* the fields of the result the caller sees, conversation id apart
ResultView(r) ==
    [success |-> r.success, response |-> r.response, insights |-> r.insights,
     actions |-> r.actions, alerts |-> r.alerts]

\* the final state Persist would have produced had it succeeded
PersistSucceeded(s) == [s EXCEPT !.conversationId = "conv_1", !.stage = "complete"]

\* C9: if Persist fails, the stage tag becomes complete_with_error and the
\* result built from the final state has the same success flag, response
\* text, insights, actions and alerts as if Persist had succeeded.
C9_PersistFailureKeepsResult ==
    [][(Executes("node6_storageAndLearning") /\ lastOutcome' = "fail")
         => /\ state'.stage = "complete_with_error"
            /\ ResultView(CompletedResult(state'))
                 = ResultView(CompletedResult(PersistSucceeded(state)))]_vars

\* a run whose store call failed and which still returned the answer
C9_Witness ==
    /\ pc = "returned"
    /\ calls.store = 1
    /\ state.stage = "complete_with_error"
    /\ result.success = TRUE
    /\ result.response = "answer"
    /\ result.actions = "extracted"

ResultFields ==
    {"success", "conversationId", "response", "insights", "actions", "alerts",
     "processingTime", "error"}

\* C10: processQuery never raises and always returns an object carrying all
\* fields of the declared interface, with error set when the run failed.
C10_ResultWellFormed ==
    pc = "returned" =>
        /\ DOMAIN result = ResultFields
        /\ (~result.success => ~Falsy(result.error))

----------------------------------------------------------------------------
(* The run in which nothing fails *)

\* every external call of the run succeeded: the builder returned the full
\* bundle, the classifier's reply was parsed, the generator answered, the
\* judge's reply was parsed and the store call returned the saved record
EveryCallSucceeded ==
    /\ state.enrichedContext = "enriched"
    /\ state.classification \in ClassifierReplies
    /\ calls.generator = 1 /\ state.error = Null
    /\ state.judgement.reasoning = "judge reasoning"
    /\ state.stage = "complete"

HappyPath ==
    << "node1_contextBuilder", "node2_queryClassifier", "node3_responseGenerator",
       "node4_judgeEvaluator", "node5_responseFormatter", "node6_storageAndLearning" >>

\* C11: when every external call succeeds and the first judgement scores
\* >= 85, the run executes Context, Classify, Generate, Judge, Format,
\* Persist in that order, each once, and returns success true with the
\* generated answer as response text and the stored record's id.
C11_HappyPath ==
    (pc = "returned" /\ EveryCallSucceeded /\ firstScore >= Threshold) =>
        /\ trace = HappyPath
        /\ result.success = TRUE
        /\ result.response = state.aiResponse
        /\ result.conversationId = "conv_1"
        /\ store.conversations = 1

\* a returned run with no failure, approved on the first pass
C11_Witness ==
    /\ pc = "returned"
    /\ EveryCallSucceeded
    /\ firstScore >= Threshold
    /\ result.response = "answer"
    /\ result.conversationId = "conv_1"

\* C12: if the caller cancels after Context has completed and before Judge
\* returns, no Persist write occurs for that run: no conversation record is
\* stored and no profile counter is incremented.
C12_CancelledRunDoesNotPersist ==
    cancel = "before_judge_returned" =>
        store.conversations = 0 /\ store.total_queries = 0

\* the graph ran to END: the run completed
RunCompleted == pc \in {"END", "returned"} /\ InTrace("node6_storageAndLearning")

----------------------------------------------------------------------------
(* Farmer profile: concurrent Persist stages and outcome feedback          *)
(*                                                                         *)
(* One FarmProfile document in the store.  Each run's storeConversation    *)
(* loads the document (getOrCreate -> findOne), increments the counters on *)
(* its in-memory copy and saves it; save() writes the modified paths with  *)
(* the values of the copy.  updateConversationOutcome is taken as one step.*)

NumRuns == 2          \* pipeline runs of the same farmer persisting at once
MaxActions == 3       \* recorded actions followed per list

RunIds == 1..NumRuns

RunTypes == {"watering", "general"}

\* the stored document of a farmer without history (schema defaults);
\* response_rate is kept as the fraction <<numerator, denominator>>
NewProfileDoc ==
    [query_frequency    |-> NoQueries,
     total_queries      |-> 0,
     successful_actions |-> 0,
     failed_actions     |-> 0,
     response_rate      |-> <<0, 1>>]

\* document.save() after incrementQueryType: the modified paths
\* (query_frequency.<type>, total_queries) are set to the copy's values
saveCounters(doc, copy, queryType) ==
    [doc EXCEPT !.query_frequency =
                    IF queryType \in DOMAIN doc.query_frequency
                    THEN [doc.query_frequency EXCEPT ![queryType] =
                              copy.query_frequency[queryType]]
                    ELSE doc.query_frequency,
                !.total_queries = copy.total_queries]

\* variant: totalActions is computed before the new action is pushed
addSuccessfulAction_staleTotal(doc) ==
    [doc EXCEPT !.successful_actions = @ + 1,
                !.response_rate = << doc.successful_actions + 1,
                                     doc.successful_actions + doc.failed_actions >>]

\* FarmProfileSchema.methods.addSuccessfulAction
addSuccessfulAction(doc) ==
    LET successes == doc.successful_actions + 1
        totalActions == successes + doc.failed_actions
    IN [doc EXCEPT !.successful_actions = successes,
                   !.response_rate = <<successes, totalActions>>]

\* FarmProfileSchema.methods.addFailedAction (response_rate is not touched)
addFailedAction(doc) == [doc EXCEPT !.failed_actions = @ + 1]

\* MemoryService.updateConversationOutcome: the profile is touched only
\* for a successful outcome
updateConversationOutcome(doc, wasSuccessful) ==
    IF wasSuccessful THEN addSuccessfulAction(doc) ELSE doc

ProfileInit ==
    /\ \E types \in [RunIds -> RunTypes] :
          profile = [idle   |-> FALSE,
                     doc    |-> NewProfileDoc,
                     runs   |-> [r \in RunIds |->
                                    [at |-> "created", queryType |-> types[r],
                                     copy |-> NewProfileDoc]],
                     lastOp |-> "none"]
    /\ PipelineInit /\ BuilderIdle /\ SeriesIdle /\ FormatterIdle

\* storeConversation of run r: FarmProfile.getOrCreate finds the document
LoadProfile(r) ==
    /\ profile.runs[r].at = "created"
    /\ profile' = [profile EXCEPT !.runs[r].at = "loaded",
                                  !.runs[r].copy = profile.doc,
                                  !.lastOp = "load"]
    /\ UNCHANGED <<pipeline, builder, series, formatter>>

\* storeConversation of run r: profile.incrementQueryType(queryType), save
SaveIncrement(r) ==
    /\ profile.runs[r].at = "loaded"
    /\ LET run  == profile.runs[r]
           copy == incrementQueryType(run.copy, run.queryType)
       IN profile' = [profile EXCEPT !.runs[r].at = "stored",
                                     !.runs[r].copy = copy,
                                     !.doc = saveCounters(profile.doc, copy, run.queryType),
                                     !.lastOp = "save"]
    /\ UNCHANGED <<pipeline, builder, series, formatter>>

\* the feedback route: updateConversationOutcome(id, actionTaken, wasSuccessful)
UpdateOutcome ==
    /\ profile.doc.successful_actions < MaxActions
    /\ \E wasSuccessful \in BOOLEAN :
          profile' = [profile EXCEPT
                         !.doc = updateConversationOutcome(profile.doc, wasSuccessful),
                         !.lastOp = IF wasSuccessful THEN "success" ELSE "failure"]
    /\ UNCHANGED <<pipeline, builder, series, formatter>>

\* the document method addFailedAction (no caller in the services)
AddFailedAction ==
    /\ profile.doc.failed_actions < MaxActions
    /\ profile' = [profile EXCEPT !.doc = addFailedAction(profile.doc),
                                  !.lastOp = "failed_action"]
    /\ UNCHANGED <<pipeline, builder, series, formatter>>

ProfileNext ==
    \/ \E r \in RunIds : LoadProfile(r)
    \/ \E r \in RunIds : SaveIncrement(r)
    \/ UpdateOutcome
    \/ AddFailedAction

ProfileSpec == ProfileInit /\ [][ProfileNext]_vars

AllRunsStored == \A r \in RunIds : profile.runs[r].at = "stored"

RECURSIVE SumOver(_, _)
SumOver(f, S) ==
    IF S = {} THEN 0
    ELSE LET x == CHOOSE y \in S : TRUE IN f[x] + SumOver(f, S \ {x})

\* C14: when several runs of the same farmer persist concurrently no counter
\* update is lost: after the N runs have completed the profile's query
\* counters have grown by exactly N, under every interleaving.
C14_NoLostCounterUpdate ==
    AllRunsStored =>
        /\ profile.doc.total_queries = NumRuns
        /\ SumOver(profile.doc.query_frequency, QueryTypes) = NumRuns

\* C15: after updateOutcome has recorded a successful action the profile's
\* response_rate equals successes / (successes + failures) over its action
\* lists; from a profile with no prior action the first success makes it 1.
C15_ResponseRateAfterSuccess ==
    profile.lastOp = "success" =>
        LET doc == profile.doc
            total == doc.successful_actions + doc.failed_actions
        IN /\ doc.response_rate[2] # 0
           /\ doc.response_rate[1] * total = doc.successful_actions * doc.response_rate[2]
           /\ (doc.successful_actions = 1 /\ doc.failed_actions = 0
                 => doc.response_rate[1] = doc.response_rate[2])

\* a success has just been recorded on a profile that also holds a failure
C15_Witness ==
    /\ profile.lastOp = "success"
    /\ profile.doc.successful_actions = 2
    /\ profile.doc.failed_actions = 1
    /\ profile.doc.response_rate = <<2, 3>>

----------------------------------------------------------------------------
(* Context builder: MemoryService.buildEnrichedContext                     *)
(*                                                                         *)
(* The six sub-fetches are started together and settle in any order        *)
(* (Promise.all); the bundle is assembled when all have settled.  A JS     *)
(* object is a record with kind "object", null is JsNull, an array is a    *)
(* sequence.  The bundle's timestamp is left out.                          *)

MaxStored == 4        \* conversations of the farmer found in the store

JsNull == [kind |-> "null"]

Fulfilled(v) == [status |-> "fulfilled", value |-> v]
Rejected == [status |-> "rejected"]
Pending == [status |-> "pending"]

Fetches == {"trends", "conversations", "profile", "irrigation", "anomalies", "similar"}

\* hourly rows in the window: fewer than two, or enough for a trend
HourlyRows == {1, 2}

contextNeeds ==
    [watering   |-> [trends |-> {"moisture", "temperature", "humidity"}, trendDays |-> 7,
                     conversations |-> 3, includeIrrigation |-> TRUE,
                     includeProfile |-> FALSE, includeAnomalies |-> TRUE],
     disease    |-> [trends |-> {"temperature", "humidity"}, trendDays |-> 7,
                     conversations |-> 2, includeIrrigation |-> FALSE,
                     includeProfile |-> FALSE, includeAnomalies |-> TRUE],
     fertilizer |-> [trends |-> {"nitrogen", "phosphorus", "potassium", "ph"}, trendDays |-> 14,
                     conversations |-> 3, includeIrrigation |-> FALSE,
                     includeProfile |-> TRUE, includeAnomalies |-> TRUE],
     ph         |-> [trends |-> {"ph", "nitrogen"}, trendDays |-> 14,
                     conversations |-> 2, includeIrrigation |-> FALSE,
                     includeProfile |-> FALSE, includeAnomalies |-> TRUE],
     nutrients  |-> [trends |-> {"nitrogen", "phosphorus", "potassium"}, trendDays |-> 14,
                     conversations |-> 3, includeIrrigation |-> FALSE,
                     includeProfile |-> TRUE, includeAnomalies |-> TRUE],
     general    |-> [trends |-> {"moisture", "ph"}, trendDays |-> 7,
                     conversations |-> 2, includeIrrigation |-> FALSE,
                     includeProfile |-> TRUE, includeAnomalies |-> FALSE]]

\* contextNeeds[queryType] || contextNeeds.general
needs(queryType) ==
    IF queryType \in DOMAIN contextNeeds THEN contextNeeds[queryType]
    ELSE contextNeeds.general

\* the metrics HourlyData.getTrends computes a trend for
TrendMetrics == {"moisture", "ph", "nitrogen", "phosphorus", "potassium", "temperature"}

\* HourlyData.getTrends(userId, days): null with fewer than two hourly rows
getTrends(days, rows) ==
    IF rows < 2 THEN JsNull
    ELSE [kind |-> "object",
          metrics |-> [m \in TrendMetrics |-> [metric |-> m, days |-> days]]]

Min(a, b) == IF a <= b THEN a ELSE b

\* array.slice(0, limit)
slice(items, limit) == SubSeq(items, 1, Min(Len(items), limit))

\* each sub-fetch catches its own errors and resolves with a default
getRecentTrends(ok, days, rows) ==
    Fulfilled(IF ok THEN getTrends(days, rows) ELSE JsNull)

getRecentConversations(ok, days, limit, stored) ==
    Fulfilled(IF ok THEN slice([i \in 1..stored |-> [conversation |-> i, days |-> days]], limit)
              ELSE << >>)

getSimilarQueries(ok, queryType, limit, stored) ==
    Fulfilled(IF ok THEN slice([i \in 1..stored |-> [similar |-> i, queryType |-> queryType]], limit)
              ELSE << >>)

\* variant: the profile fetch lets its error escape
getFarmerProfile_unguarded(ok) ==
    IF ok THEN Fulfilled([kind |-> "object", responseRate |-> 0]) ELSE Rejected

getFarmerProfile(ok) ==
    Fulfilled(IF ok THEN [kind |-> "object", responseRate |-> 0] ELSE JsNull)

getIrrigationHistory(ok, days) ==
    Fulfilled(IF ok THEN [kind |-> "object", days |-> days] ELSE JsNull)

\* detectAnomalies: nothing is reported without 7-day trends and averages
detectAnomalies(ok, rows, extreme) ==
    Fulfilled(IF ~ok THEN << >>
              ELSE IF getTrends(7, rows) = JsNull THEN << >>
              ELSE IF extreme THEN << "temperature_extreme" >> ELSE << >>)

_filterTrends(trends, relevantParams) ==
    IF trends = JsNull THEN JsNull
    ELSE [kind |-> "object",
          metrics |-> [m \in relevantParams \cap DOMAIN trends.metrics |-> trends.metrics[m]]]

_estimateTokens(conversations, trends, n) ==
    100 + Len(conversations) * 100
        + (IF trends # JsNull THEN Cardinality(n.trends) * 30 ELSE 0)
        + (IF n.includeProfile THEN 100 ELSE 0)
        + (IF n.includeIrrigation THEN 80 ELSE 0)
        + (IF n.includeAnomalies THEN 50 ELSE 0)

\* the bundle of the catch branch
MinimalContext(query, queryType, currentSensors) ==
    [query |-> query, queryType |-> queryType, currentSensors |-> currentSensors,
     trends |-> JsNull, pastConversations |-> << >>,
     error |-> "Limited context available"]

\* the try block after Promise.all has resolved
EnrichedContext(query, queryType, currentSensors, got) ==
    LET n == needs(queryType)
        filteredTrends == _filterTrends(got.trends.value, n.trends)
        recentConversations == got.conversations.value
    IN [query |-> query, queryType |-> queryType, currentSensors |-> currentSensors,
        trends |-> filteredTrends,
        pastConversations |-> slice(recentConversations, n.conversations),
        similarQueries |-> got.similar.value,
        farmerProfile |-> IF n.includeProfile THEN got.profile.value ELSE JsNull,
        irrigationHistory |-> IF n.includeIrrigation THEN got.irrigation.value ELSE JsNull,
        anomalies |-> IF n.includeAnomalies THEN got.anomalies.value ELSE << >>,
        contextStats |-> [conversationsFound |-> Len(recentConversations),
                          trendsIncluded |-> n.trends,
                          contextType |-> queryType,
                          estimatedTokens |->
                              _estimateTokens(recentConversations, filteredTrends, n)]]

\* Promise.all rejects when one promise rejects: the catch branch answers
buildEnrichedContext(query, queryType, currentSensors, got) ==
    IF \E f \in Fetches : got[f].status = "rejected"
    THEN MinimalContext(query, queryType, currentSensors)
    ELSE EnrichedContext(query, queryType, currentSensors, got)


BuilderInit ==
    /\ \E queryType \in QueryTypes, rows \in HourlyRows,
          stored \in 0..MaxStored, extreme \in BOOLEAN :
          builder = [idle |-> FALSE, at |-> "fetching",
                     query |-> "query", queryType |-> queryType,
                     currentSensors |-> "snapshot",
                     rows |-> rows, stored |-> stored, extreme |-> extreme,
                     got |-> [f \in Fetches |-> Pending],
                     failed |-> {}, first |-> "none",
                     bundle |-> [pending |-> TRUE]]
    /\ PipelineInit /\ ProfileIdle /\ SeriesIdle /\ FormatterIdle

\* what a sub-fetch resolves with when its store call throws
DegradedValue(f) ==
    IF f \in {"trends", "profile", "irrigation"} THEN Fulfilled(JsNull)
    ELSE Fulfilled(<< >>)

\* variant: the sub-fetches share one store session, which is unusable for
\* the fetches that settle after one of them has thrown
Settle_sharedSession(f, p, threw) ==
    /\ builder.at = "fetching"
    /\ builder.got[f] = Pending
    /\ builder' = [builder EXCEPT
                      !.got[f] = IF builder.failed # {} THEN DegradedValue(f) ELSE p,
                      !.failed = IF threw THEN @ \cup {f} ELSE @,
                      !.first = IF @ = "none" THEN f ELSE @]
    /\ UNCHANGED <<pipeline, profile, series, formatter>>

\* the sub-fetch f settles with p; failed records a fetch whose store call
\* threw, first the fetch that settled before all others
Settle(f, p, threw) ==
    /\ builder.at = "fetching"
    /\ builder.got[f] = Pending
    /\ builder' = [builder EXCEPT !.got[f] = p,
                                  !.failed = IF threw THEN @ \cup {f} ELSE @,
                                  !.first = IF @ = "none" THEN f ELSE @]
    /\ UNCHANGED <<pipeline, profile, series, formatter>>

GetRecentTrends ==
    \E ok \in BOOLEAN :
        Settle("trends",
               getRecentTrends(ok, needs(builder.queryType).trendDays, builder.rows),
               ~ok)

GetRecentConversations ==
    \E ok \in BOOLEAN :
        Settle("conversations",
               getRecentConversations(ok, needs(builder.queryType).trendDays,
                                      needs(builder.queryType).conversations,
                                      builder.stored),
               ~ok)

GetFarmerProfile ==
    IF needs(builder.queryType).includeProfile
    THEN \E ok \in BOOLEAN : Settle("profile", getFarmerProfile(ok), ~ok)
    ELSE Settle("profile", Fulfilled(JsNull), FALSE)

GetIrrigationHistory ==
    IF needs(builder.queryType).includeIrrigation
    THEN \E ok \in BOOLEAN : Settle("irrigation", getIrrigationHistory(ok, 3), ~ok)
    ELSE Settle("irrigation", Fulfilled(JsNull), FALSE)

DetectAnomalies ==
    IF needs(builder.queryType).includeAnomalies
    THEN \E ok \in BOOLEAN :
            Settle("anomalies", detectAnomalies(ok, builder.rows, builder.extreme), ~ok)
    ELSE Settle("anomalies", Fulfilled(<< >>), FALSE)

GetSimilarQueries ==
    \E ok \in BOOLEAN :
        Settle("similar",
               getSimilarQueries(ok, builder.queryType, 2, builder.stored),
               ~ok)

\* Promise.all has settled: the bundle is assembled and returned
BuildReturn ==
    /\ builder.at = "fetching"
    /\ \A f \in Fetches : builder.got[f] # Pending
    /\ builder' = [builder EXCEPT
                      !.at = "returned",
                      !.bundle = buildEnrichedContext(builder.query, builder.queryType,
                                                      builder.currentSensors, builder.got)]
    /\ UNCHANGED <<pipeline, profile, series, formatter>>

BuilderNext ==
    \/ GetRecentTrends
    \/ GetRecentConversations
    \/ GetFarmerProfile
    \/ GetIrrigationHistory
    \/ DetectAnomalies
    \/ GetSimilarQueries
    \/ BuildReturn

BuilderSpec == BuilderInit /\ [][BuilderNext]_vars

\* buildEnrichedContext has returned; every store call succeeded and the
\* window holds enough hourly rows for a trend
BuiltWithAllData ==
    /\ builder.at = "returned"
    /\ builder.failed = {}
    /\ builder.rows >= 2

TrendsAre(metrics, days) ==
    /\ "trends" \in DOMAIN builder.bundle
    /\ builder.bundle.trends # JsNull
    /\ DOMAIN builder.bundle.trends.metrics = metrics
    /\ \A m \in DOMAIN builder.bundle.trends.metrics :
          builder.bundle.trends.metrics[m] = [metric |-> m, days |-> days]

\* C16: buildContext for "watering" returns a bundle whose trends are those
\* of moisture, temperature and humidity over a 7-day window and whose farmer
\* profile is absent; for "fertilizer" the trends are those of nitrogen,
\* phosphorus, potassium and pH over 14 days and the profile is included.
C16_ScopedTrendsAndProfile ==
    /\ (BuiltWithAllData /\ builder.queryType = "watering") =>
           /\ TrendsAre({"moisture", "temperature", "humidity"}, 7)
           /\ builder.bundle.farmerProfile = JsNull
    /\ (BuiltWithAllData /\ builder.queryType = "fertilizer") =>
           /\ TrendsAre({"nitrogen", "phosphorus", "potassium", "ph"}, 14)
           /\ builder.bundle.farmerProfile # JsNull

EnrichedFields ==
    {"query", "queryType", "currentSensors", "trends", "pastConversations",
     "similarQueries", "farmerProfile", "irrigationHistory", "anomalies"}

\* the value a successful sub-fetch f obtained, as the bundle must hold it
FetchedValueKept(f) ==
    LET b == builder.bundle
        v == builder.got[f].value
        n == needs(builder.queryType)
    IN CASE f = "trends" ->
              IF v = JsNull THEN b.trends = JsNull
              ELSE /\ b.trends # JsNull
                   /\ DOMAIN b.trends.metrics = n.trends \cap DOMAIN v.metrics
                   /\ \A m \in DOMAIN b.trends.metrics : b.trends.metrics[m] = v.metrics[m]
         [] f = "conversations" -> b.pastConversations = v
         [] f = "profile"       -> b.farmerProfile = v
         [] f = "irrigation"    -> b.irrigationHistory = v
         [] f = "anomalies"     -> b.anomalies = v
         [] f = "similar"       -> b.similarQueries = v

FailedFieldEmpty(f) ==
    LET b == builder.bundle
    IN CASE f = "trends"        -> b.trends = JsNull
         [] f = "conversations" -> b.pastConversations = << >>
         [] f = "profile"       -> b.farmerProfile = JsNull
         [] f = "irrigation"    -> b.irrigationHistory = JsNull
         [] f = "anomalies"     -> b.anomalies = << >>
         [] f = "similar"       -> b.similarQueries = << >>

\* C17: for every subset of the sub-fetches that fail, buildContext returns a
\* bundle with the query, the type and the snapshot, each failed fetch's
\* field null or empty and every other field holding its fetched value; the
\* call ends by returning, never by raising.
C17_FailedFetchesDegrade ==
    /\ builder.idle = FALSE => builder.at \in {"fetching", "returned"}
    /\ (builder.idle = FALSE /\ builder.at = "returned") =>
           /\ EnrichedFields \subseteq DOMAIN builder.bundle
           /\ builder.bundle.query = builder.query
           /\ builder.bundle.queryType = builder.queryType
           /\ builder.bundle.currentSensors = builder.currentSensors
           /\ \A f \in builder.failed : FailedFieldEmpty(f)
           /\ \A f \in Fetches \ builder.failed : FetchedValueKept(f)

\* the profile and trends fetches failed and the others delivered
C17_Witness ==
    /\ builder.idle = FALSE /\ builder.at = "returned"
    /\ builder.queryType = "fertilizer"
    /\ builder.failed = {"profile", "trends"}
    /\ Len(builder.bundle.pastConversations) = 3
    /\ builder.bundle.similarQueries # << >>
    /\ builder.bundle.anomalies # << >>

----------------------------------------------------------------------------
(* Trend analytics: utils/trendAnalysis.js and HourlyData.getTrends         *)
(*                                                                         *)
(* A sample is an integer count of units of 1/UnitsPerOne (0.005), so a    *)
(* step of one unit lies below the direction threshold 0.01.  A slope is   *)
(* the exact fraction <<numerator, denominator>>, denominator > 0, in      *)
(* units per sample.                                                       *)

MaxLen == 3           \* samples in a series
MaxValue == 6         \* largest sample, in units

UnitsPerOne == 200

\* getTrendDirection's default threshold 0.01, in units
threshold == UnitsPerOne \div 100

RECURSIVE SumTo(_, _)
\* f(1) + ... + f(n) for the sequence f
SumTo(f, n) == IF n = 0 THEN 0 ELSE f[n] + SumTo(f, n - 1)

\* variant: the samples are indexed from the newest backwards
calculateSlope_reversedIndex(values) ==
    LET n == Len(values)
        sum == SumTo(values, n)
        dx(i) == 2 * (n - i) - (n - 1)
        numerator == SumTo([i \in 1..n |-> dx(i) * (n * values[i] - sum)], n)
        denominator == SumTo([i \in 1..n |-> dx(i) * dx(i)], n)
    IN IF n < 2 THEN <<0, 1>>
       ELSE IF denominator = 0 THEN <<0, 1>>
       ELSE <<2 * numerator, n * denominator>>

\* calculateSlope: x = i - 1 is the sample index, xMean = (n-1)/2 and
\* yMean = sum/n.  With dx = 2(x - xMean) and n(y - yMean) = n*y - sum the
\* loop's numerator is numerator/(2n) and its denominator is denominator/4.
calculateSlope(values) ==
    LET n == Len(values)
        sum == SumTo(values, n)
        dx(i) == 2 * (i - 1) - (n - 1)
        numerator == SumTo([i \in 1..n |-> dx(i) * (n * values[i] - sum)], n)
        denominator == SumTo([i \in 1..n |-> dx(i) * dx(i)], n)
    IN IF n < 2 THEN <<0, 1>>
       ELSE IF denominator = 0 THEN <<0, 1>>
       ELSE <<2 * numerator, n * denominator>>

\* variant: the lower comparison has lost its place
getTrendDirection_signSlip(slope) ==
    IF slope[1] > -threshold * slope[2] THEN "increasing"
    ELSE IF slope[1] < -threshold * slope[2] THEN "decreasing"
    ELSE "stable"

getTrendDirection(slope) ==
    IF slope[1] > threshold * slope[2] THEN "increasing"
    ELSE IF slope[1] < -threshold * slope[2] THEN "decreasing"
    ELSE "stable"

\* the directions the double-precision slope can give: a slope that is
\* exactly +-threshold may be rounded to either side of it
RoundedDirections(slope) ==
    {getTrendDirection(slope)}
        \cup (IF slope[1] = threshold * slope[2] THEN {"increasing"} ELSE {})
        \cup (IF slope[1] = -threshold * slope[2] THEN {"decreasing"} ELSE {})

\* a / b rounded to the nearest integer, ties away from zero (b > 0)
RoundDiv(a, b) ==
    IF a >= 0 THEN (2 * a + b) \div (2 * b) ELSE -((2 * (-a) + b) \div (2 * b))

\* JS results: the number h/100, the string of h/100 with two decimals,
\* and the string of a non-finite number
Number(h) == [type |-> "number", finite |-> TRUE, hundredths |-> h]
FixedString(h) == [type |-> "string", finite |-> TRUE, hundredths |-> h]
NonFiniteString(text) == [type |-> "string", finite |-> FALSE, text |-> text]

\* (x / y * 100).toFixed(2), division as in IEEE 754
toFixed2OfRatio(x, y) ==
    IF y = 0
    THEN NonFiniteString(IF x > 0 THEN "Infinity" ELSE IF x < 0 THEN "-Infinity" ELSE "NaN")
    ELSE IF y > 0 THEN FixedString(RoundDiv(x * 10000, y))
    ELSE FixedString(RoundDiv(-x * 10000, -y))

calculatePercentageChange(start, end) ==
    IF start = 0 THEN Number(0) ELSE toFixed2OfRatio(end - start, start)

\* getTrends: calculateTrend over the field's values, oldest first
calculateTrend(values) ==
    LET n == Len(values)
    IN [current |-> values[n],
        start |-> values[1],
        change |-> values[n] - values[1],
        changePercent |-> toFixed2OfRatio(values[n] - values[1], values[1]),
        direction |-> IF values[n] > values[1] THEN "increasing"
                      ELSE IF values[n] < values[1] THEN "decreasing"
                      ELSE "stable"]

SeriesInit ==
    /\ \E n \in 0..MaxLen : \E data \in [1..n -> 0..MaxValue] :
          series = [idle |-> FALSE, data |-> data, computed |-> {},
                    slope |-> <<0, 1>>, direction |-> "stable",
                    change |-> Number(0), trend |-> JsNull]
    /\ PipelineInit /\ ProfileIdle /\ BuilderIdle /\ FormatterIdle

Computes(what) ==
    /\ what \notin series.computed
    /\ UNCHANGED <<pipeline, profile, builder, formatter>>

CalculateSlope ==
    /\ Computes("slope")
    /\ series' = [series EXCEPT !.computed = @ \cup {"slope"},
                                !.slope = calculateSlope(series.data)]

GetTrendDirection ==
    /\ Computes("direction")
    /\ "slope" \in series.computed
    /\ \E direction \in RoundedDirections(series.slope) :
          series' = [series EXCEPT !.computed = @ \cup {"direction"},
                                   !.direction = direction]

\* the helper applied to the first and the last sample of the window
CalculatePercentageChange ==
    /\ Computes("change")
    /\ Len(series.data) >= 1
    /\ series' = [series EXCEPT
                     !.computed = @ \cup {"change"},
                     !.change = calculatePercentageChange(series.data[1],
                                                          series.data[Len(series.data)])]

\* HourlyData.getTrends over the window: null with fewer than two rows
GetTrends ==
    /\ Computes("trend")
    /\ series' = [series EXCEPT
                     !.computed = @ \cup {"trend"},
                     !.trend = IF Len(series.data) < 2 THEN JsNull
                               ELSE calculateTrend(series.data)]

SeriesNext ==
    \/ CalculateSlope
    \/ GetTrendDirection
    \/ CalculatePercentageChange
    \/ GetTrends

SeriesSpec == SeriesInit /\ [][SeriesNext]_vars

\* C18: for a metric series with fewer than 2 samples the computed slope is
\* 0 and the direction derived from it is "stable".
C18_ShortSeriesStable ==
    (series.idle = FALSE /\ Len(series.data) < 2) =>
        /\ "slope" \in series.computed => series.slope[1] = 0
        /\ "direction" \in series.computed => series.direction = "stable"

\* slope and direction of a one-sample series have been computed
C18_Witness ==
    /\ series.idle = FALSE
    /\ Len(series.data) = 1 /\ series.data[1] = MaxValue
    /\ {"slope", "direction"} \subseteq series.computed
    /\ series.direction = "stable"

StrictlyIncreasing(values) ==
    /\ Len(values) >= 2
    /\ \A i \in 1..(Len(values) - 1) : values[i] < values[i + 1]

StrictlyDecreasing(values) ==
    /\ Len(values) >= 2
    /\ \A i \in 1..(Len(values) - 1) : values[i] > values[i + 1]

\* every step between consecutive samples is larger than the threshold
StepsAboveThreshold(values) ==
    \A i \in 1..(Len(values) - 1) :
        \/ values[i + 1] - values[i] > threshold
        \/ values[i] - values[i + 1] > threshold

Analysed == series.idle = FALSE /\ {"slope", "direction"} \subseteq series.computed

C20_ZeroStartPercentChange ==
    (series.idle = FALSE /\ Len(series.data) >= 1 /\ series.data[1] = 0) =>
        /\ "change" \in series.computed =>
               series.change.finite /\ series.change.hundredths = 0
        /\ ("trend" \in series.computed /\ series.trend # JsNull) =>
               /\ series.trend.changePercent.finite
               /\ series.trend.changePercent.hundredths = 0

----------------------------------------------------------------------------
(* Outlier detection: utils/trendAnalysis.js detectOutliers                *)

MaxSamples == 5       \* samples handed to detectOutliers
MaxReading == 3       \* largest sample

RECURSIVE Insert(_, _)
\* v placed after the elements of the ascending sequence that are <= v
Insert(sorted, v) ==
    IF sorted = << >> THEN << v >>
    ELSE IF v < Head(sorted) THEN << v >> \o sorted
    ELSE << Head(sorted) >> \o Insert(Tail(sorted), v)

RECURSIVE SortAscending(_)
\* array.sort((a, b) => a - b)
SortAscending(values) ==
    IF values = << >> THEN << >>
    ELSE Insert(SortAscending(SubSeq(values, 1, Len(values) - 1)), values[Len(values)])

\* the elements of data outside [q1 - 1.5*iqr, q3 + 1.5*iqr], the quartiles
\* read from the ascending values at floor(n*0.25) and floor(n*0.75)
OutliersBy(data, values) ==
    LET n == Len(values)
        q1 == values[(n \div 4) + 1]
        q3 == values[((3 * n) \div 4) + 1]
        iqr == q3 - q1
        outside(v) == 2 * v < 2 * q1 - 3 * iqr \/ 2 * v > 2 * q3 + 3 * iqr
    IN SelectSeq(data, outside)    \* data.filter(...)

\* variant: the input array itself is sorted
detectOutliers_sortsInput(data) ==
    LET values == SortAscending(data)
    IN [data |-> values,
        outliers |-> IF Len(values) < 4 THEN << >> ELSE OutliersBy(values, values)]

\* detectOutliers(data, field): data.map(...) is a new array, which is sorted
detectOutliers(data) ==
    LET values == SortAscending(data)
    IN [data |-> data,
        outliers |-> IF Len(values) < 4 THEN << >> ELSE OutliersBy(data, values)]

OutlierInit ==
    /\ \E n \in 0..MaxSamples : \E data \in [1..n -> 0..MaxReading] :
          series = [idle |-> FALSE, input |-> data, data |-> data,
                    called |-> FALSE, outliers |-> << >>]
    /\ PipelineInit /\ ProfileIdle /\ BuilderIdle /\ FormatterIdle

DetectOutliers ==
    /\ ~series.called
    /\ LET r == detectOutliers(series.data)
       IN series' = [series EXCEPT !.called = TRUE,
                                   !.data = r.data,
                                   !.outliers = r.outliers]
    /\ UNCHANGED <<pipeline, profile, builder, formatter>>

OutlierNext == DetectOutliers

OutlierSpec == OutlierInit /\ [][OutlierNext]_vars

\* the sample of rank k (0 = smallest) among the samples of values
OfRank(values, k) ==
    CHOOSE v \in {values[i] : i \in 1..Len(values)} :
        /\ Cardinality({i \in 1..Len(values) : values[i] < v}) <= k
        /\ Cardinality({i \in 1..Len(values) : values[i] <= v}) > k

\* v lies outside [Q1 - 1.5*IQR, Q3 + 1.5*IQR] of the samples
OutsideFences(values, v) ==
    LET n == Len(values)
        Q1 == OfRank(values, n \div 4)
        Q3 == OfRank(values, (3 * n) \div 4)
    IN \/ 2 * v < 2 * Q1 - 3 * (Q3 - Q1)
       \/ 2 * v > 2 * Q3 + 3 * (Q3 - Q1)

\* sub is the subsequence of values at the positions of the set keep
IsSelection(sub, values, keep) ==
    /\ Len(sub) = Cardinality(keep)
    /\ \A i \in keep :
          sub[Cardinality({j \in keep : j <= i})] = values[i]

\* C21: outlier detection returns the empty set for fewer than 4 samples;
\* for 4 or more it returns, in input order, exactly the samples outside
\* [Q1 - 1.5*IQR, Q3 + 1.5*IQR]; the input sequence is left unmodified.
C21_OutliersByFences ==
    (series.idle = FALSE /\ series.called) =>
        /\ series.data = series.input
        /\ Len(series.input) < 4 => series.outliers = << >>
        /\ Len(series.input) >= 4 =>
               IsSelection(series.outliers, series.input,
                           {i \in 1..Len(series.input) :
                               OutsideFences(series.input, series.input[i])})

\* an unsorted input with a low and a high outlier around equal quartiles
C21_Witness ==
    /\ series.idle = FALSE /\ series.called
    /\ series.input = << MaxReading, 1, 1, 0, 1 >>
    /\ series.outliers = << MaxReading, 0 >>

----------------------------------------------------------------------------
(* Response formatter: AIService._extractActions and _determinePriority    *)
(*                                                                         *)
(* A text is the sequence of its characters; the bullet character of the   *)
(* second action pattern is written "bullet".                              *)

MaxLines == 2         \* lines of an answer

Digits == {"0", "1", "2", "3", "4", "5", "6", "7", "8", "9"}

\* the characters \s matches, of those that occur in an answer
Whitespace == {" ", "\n", "\t"}

UpperCase ==
    << "A", "B", "C", "D", "E", "F", "G", "H", "I", "J", "K", "L", "M",
       "N", "O", "P", "Q", "R", "S", "T", "U", "V", "W", "X", "Y", "Z" >>

LowerCase ==
    << "a", "b", "c", "d", "e", "f", "g", "h", "i", "j", "k", "l", "m",
       "n", "o", "p", "q", "r", "s", "t", "u", "v", "w", "x", "y", "z" >>

toLowerCase(text) ==
    [i \in 1..Len(text) |->
        IF \E k \in 1..26 : UpperCase[k] = text[i]
        THEN LowerCase[CHOOSE k \in 1..26 : UpperCase[k] = text[i]]
        ELSE text[i]]

\* text.includes(word)
includes(text, word) ==
    \E i \in 0..(Len(text) - Len(word)) : SubSeq(text, i + 1, i + Len(word)) = word

\* text.trim()
trim(text) ==
    LET inked == {i \in 1..Len(text) : text[i] \notin Whitespace}
    IN IF inked = {} THEN << >>
       ELSE SubSeq(text, CHOOSE i \in inked : \A j \in inked : i <= j,
                         CHOOSE i \in inked : \A j \in inked : i >= j)

\* _determinePriority: the urgent keywords
urgent ==
    { << "i", "m", "m", "e", "d", "i", "a", "t", "e", "l", "y" >>,
      << "u", "r", "g", "e", "n", "t" >>,
      << "c", "r", "i", "t", "i", "c", "a", "l" >>,
      << "n", "o", "w" >>,
      << "t", "o", "d", "a", "y" >>,
      << "a", "s", "a", "p" >> }

\* _determinePriority: the high keywords
high ==
    { << "s", "o", "o", "n" >>,
      << "q", "u", "i", "c", "k", "l", "y" >>,
      << "w", "i", "t", "h", "i", "n", " ", "1", "-", "2", " ", "d", "a",
            "y", "s" >>,
      << "i", "m", "p", "o", "r", "t", "a", "n", "t" >> }

within == << "w", "i", "t", "h", "i", "n" >>

\* variant: the "within" rule is tried first
_determinePriority_withinFirst(actionText) ==
    LET text == toLowerCase(actionText)
    IN IF includes(text, within) THEN "medium"
       ELSE IF \E w \in urgent : includes(text, w) THEN "urgent"
       ELSE IF \E w \in high : includes(text, w) THEN "high"
       ELSE "low"

_determinePriority(actionText) ==
    LET text == toLowerCase(actionText)
    IN IF \E w \in urgent : includes(text, w) THEN "urgent"
       ELSE IF \E w \in high : includes(text, w) THEN "high"
       ELSE IF includes(text, within) THEN "medium"
       ELSE "low"

RECURSIVE RunOf(_, _, _)
\* the last position of the longest run of characters of S starting at
\* from; from - 1 when there is none
RunOf(text, from, S) ==
    IF from <= Len(text) /\ text[from] \in S THEN RunOf(text, from + 1, S)
    ELSE from - 1

RECURSIVE RunNotOf(_, _, _)
RunNotOf(text, from, S) ==
    IF from <= Len(text) /\ text[from] \notin S THEN RunNotOf(text, from + 1, S)
    ELSE from - 1

\* the two actionPatterns differ in how an item is marked:
\* "numbered" is \d+\. and "bulleted" is [-bullet]
actionPatterns == << "numbered", "bulleted" >>

\* the last position of a marker starting at i, 0 when none starts there
MarkerEnd(pattern, text, i) ==
    IF pattern = "numbered"
    THEN LET j == RunOf(text, i, Digits)
         IN IF j >= i /\ j + 1 <= Len(text) /\ text[j + 1] = "." THEN j + 1 ELSE 0
    ELSE IF text[i] \in {"-", "bullet"} THEN i ELSE 0

\* marker \s+ ([^.\n]+) matched at i: \s+ takes the longest run of
\* whitespace that still leaves a character for the group, and the group
\* runs up to the next "." or line end
MatchAt(pattern, text, i) ==
    LET m == MarkerEnd(pattern, text, i)
        k == RunOf(text, m + 1, Whitespace)
        starts == {s \in (m + 2)..(k + 1) : s <= Len(text) /\ text[s] \notin {".", "\n"}}
        s == CHOOSE x \in starts : \A y \in starts : x >= y
        e == RunNotOf(text, s, {".", "\n"})
    IN IF m = 0 \/ starts = {} THEN [found |-> FALSE]
       ELSE [found |-> TRUE, group |-> SubSeq(text, s, e), end |-> e]

RECURSIVE ExecAll(_, _, _)
\* the groups of the successive pattern.exec(response) matches from `from`
ExecAll(pattern, text, from) ==
    LET found == {i \in from..Len(text) : MatchAt(pattern, text, i).found}
    IN IF found = {} THEN << >>
       ELSE LET i == CHOOSE x \in found : \A y \in found : x <= y
                match == MatchAt(pattern, text, i)
            IN << match.group >> \o ExecAll(pattern, text, match.end + 1)

\* variant: the length test admits 10 characters
_extractActions_atLeastTen(response) ==
    LET groups == ExecAll(actionPatterns[1], response, 1)
                      \o ExecAll(actionPatterns[2], response, 1)
        trimmed == [i \in 1..Len(groups) |-> trim(groups[i])]
        sized(action) == Len(action) >= 10 /\ Len(action) < 150
        kept == SelectSeq(trimmed, sized)
        actions == [i \in 1..Len(kept) |->
                       [action |-> kept[i], priority |-> _determinePriority(kept[i])]]
    IN SubSeq(actions, 1, IF Len(actions) < 5 THEN Len(actions) ELSE 5)

_extractActions(response) ==
    LET groups == ExecAll(actionPatterns[1], response, 1)
                      \o ExecAll(actionPatterns[2], response, 1)
        trimmed == [i \in 1..Len(groups) |-> trim(groups[i])]
        sized(action) == Len(action) > 10 /\ Len(action) < 150
        kept == SelectSeq(trimmed, sized)
        actions == [i \in 1..Len(kept) |->
                       [action |-> kept[i], priority |-> _determinePriority(kept[i])]]
    IN SubSeq(actions, 1, IF Len(actions) < 5 THEN Len(actions) ELSE 5)

\* lines an answer is made of
AnswerLines ==
    << << "1", ".", " ", "A", "p", "p", "l", "y", " ", "5", "0", "g", " ",
             "u", "r", "e", "a", " ", "i", "m", "m", "e", "d", "i", "a", "t",
             "e", "l", "y" >>,
       << "2", ".", " ", "C", "h", "e", "c", "k", " ", "a", "g", "a", "i",
             "n", " ", "i", "n", " ", "2", " ", "d", "a", "y", "s" >>,
       << "-", " ", "W", "a", "t", "e", "r", " ", "t", "h", "e", " ", "f",
             "i", "e", "l", "d", " ", "s", "o", "o", "n" >>,
       << "3", ".", " ", "I", "r", "r", "i", "g", "a", "t", "e", " ", "w",
             "i", "t", "h", "i", "n", " ", "3", " ", "d", "a", "y", "s" >>,
       << "4", ".", " ", "S", "p", "r", "a", "y", " ", "w", "i", "t", "h",
             "i", "n", " ", "1", "-", "2", " ", "d", "a", "y", "s" >>,
       << "bullet", " ", "Y", "o", "u", " ", "k", "n", "o", "w", " ", "t",
             "h", "e", " ", "d", "r", "i", "l", "l", " ", "h", "e", "r", "e" >>,
       << "S", "o", "i", "l", " ", "i", "s", " ", "d", "r", "y" >>,
       << "5", ".", " ", "T", "o", "o", " ", "s", "h", "o", "r", "t" >> >>

RECURSIVE JoinLines(_)
\* the lines joined by line ends
JoinLines(ids) ==
    IF ids = << >> THEN << >>
    ELSE IF Len(ids) = 1 THEN AnswerLines[ids[1]]
    ELSE AnswerLines[ids[1]] \o << "\n" >> \o JoinLines(Tail(ids))

FormatterInit ==
    /\ \E n \in 0..MaxLines : \E ids \in [1..n -> 1..Len(AnswerLines)] :
          formatter = [idle |-> FALSE, lines |-> ids, response |-> JoinLines(ids),
                       extracted |-> FALSE, actions |-> << >>]
    /\ PipelineInit /\ ProfileIdle /\ BuilderIdle /\ SeriesIdle

\* node5_responseFormatter: actions: this._extractActions(aiResponse)
ExtractActions ==
    /\ ~formatter.extracted
    /\ formatter' = [formatter EXCEPT !.extracted = TRUE,
                                      !.actions = _extractActions(formatter.response)]
    /\ UNCHANGED <<pipeline, profile, builder, series>>

FormatterNext == ExtractActions

FormatterSpec == FormatterInit /\ [][FormatterNext]_vars

\* the priority the rules give, each rule stated with the failure of the
\* rules before it
PriorityByFirstRule(actionText) ==
    LET text == toLowerCase(actionText)
        isUrgent == \E w \in urgent : includes(text, w)
        isHigh == \E w \in high : includes(text, w)
        hasWithin == includes(text, within)
    IN CASE isUrgent -> "urgent"
         [] ~isUrgent /\ isHigh -> "high"
         [] ~isUrgent /\ ~isHigh /\ hasWithin -> "medium"
         [] ~isUrgent /\ ~isHigh /\ ~hasWithin -> "low"

\* the answer "1. Apply 50g urea immediately" / "2. Check again in 2 days"
TwoNumberedLines == formatter.lines = << 1, 2 >>

\* C22: each extracted action's priority is decided by the first matching
\* rule in the order urgent keyword, soon/important keyword, "within",
\* otherwise low; the answer with the two numbered lines "Apply 50g urea
\* immediately" and "Check again in 2 days" yields exactly two actions with
\* priorities urgent then low.
C22_PriorityByFirstRule ==
    (formatter.idle = FALSE /\ formatter.extracted) =>
        /\ \A i \in 1..Len(formatter.actions) :
              formatter.actions[i].priority =
                  PriorityByFirstRule(formatter.actions[i].action)
        /\ TwoNumberedLines =>
              /\ Len(formatter.actions) = 2
              /\ formatter.actions[1].action = SubSeq(AnswerLines[1], 4, Len(AnswerLines[1]))
              /\ formatter.actions[1].priority = "urgent"
              /\ formatter.actions[2].action = SubSeq(AnswerLines[2], 4, Len(AnswerLines[2]))
              /\ formatter.actions[2].priority = "low"

\* the two numbered lines have been extracted
C22_Witness ==
    /\ formatter.idle = FALSE /\ formatter.extracted
    /\ TwoNumberedLines
    /\ Len(formatter.actions) = 2

----------------------------------------------------------------------------
(* Pipeline: stage transitions after a retry and after a Context error     *)

\* the step is an execution of Retry in which the generator was asked
RetryAsksGenerator ==
    Executes("node4_1_enhancedRetry") /\ node4_1_requestsGenerator(state)

\* C23: if the generation call made in Retry fails, the answer text stays
\* what it was before the retry and the next stage executed is Format: Judge
\* is not executed again and no further retry is attempted.
C23_FailedRetryGoesToFormat ==
    [][(RetryAsksGenerator /\ lastOutcome' = "fail")
         => /\ state'.aiResponse = state.aiResponse
            /\ pc' = "node5_responseFormatter"]_vars

\* C24: when Retry runs with retry counter 0 and its generation call
\* succeeds, the counter becomes 1 and the improved answer is submitted to
\* Judge again before Format runs.
C24_ImprovedAnswerRejudged ==
    [][(RetryAsksGenerator /\ state.retryCount = 0 /\ lastOutcome' # "fail")
         => /\ state'.retryCount = 1
            /\ pc' = "node4_judgeEvaluator"]_vars

----------------------------------------------------------------------------
(* Pipeline: an external model call that never responds                    *)
(*                                                                         *)
(* gemini and gpt4mini are constructed without a timeout and invoke is     *)
(* called without a timeout or an abort signal, so a node awaiting a call  *)
(* that never settles stays where it is: no step of the run follows.       *)

\* the node at pc sends a request to an external model
SendsModelCall ==
    \/ pc = "node2_queryClassifier"
    \/ pc = "node3_responseGenerator" /\ ~node3_throws(state)
                                      /\ node3_requestsGenerator(state)
    \/ pc = "node4_judgeEvaluator" /\ node4_requestsJudge(state)
    \/ pc = "node4_1_enhancedRetry" /\ node4_1_requestsGenerator(state)

CallNeverResponds ==
    /\ pc \in Nodes /\ Runs(pc)
    /\ SendsModelCall
    /\ pc' = "awaiting"
    /\ lastOutcome' = "no_response"
    /\ UNCHANGED <<state, steps, result, trace, firstScore, calls, store, cancel, others>>

NextWithHangs ==
    \/ Next
    \/ CallNeverResponds

\* the runtime takes every step that is possible
SpecWithHangs == Init /\ [][NextWithHangs]_vars /\ WF_vars(NextWithHangs)

\* C26: a classifier, generator or judge call that never responds is cut off
\* by its own timeout and then handled like a failure of that call, so the
\* run still returns a result to the caller.
C26_HungCallStillReturns == (pc = "awaiting") ~> (pc = "returned")

----------------------------------------------------------------------------
(* Pipeline: one ContextBundle and one Classification per run              *)

\* C27: in every run the context builder is invoked exactly once and the
\* classifier exactly once, and once Context has completed no later stage
\* replaces or modifies the ContextBundle.
C27_OneBundlePerRun ==
    /\ [](/\ Executions("node1_contextBuilder") <= 1
          /\ calls.classifier <= 1
          /\ pc = "returned" => /\ Executions("node1_contextBuilder") = 1
                                /\ calls.classifier = 1)
    /\ [][InTrace("node1_contextBuilder")
            => state'.enrichedContext = state.enrichedContext]_vars

\* a run that went through Judge, Retry and Format with the full bundle
C27_Witness ==
    /\ pc = "returned"
    /\ state.enrichedContext = "enriched"
    /\ InTrace("node4_1_enhancedRetry")
    /\ InTrace("node6_storageAndLearning")

\* C28: in every reachable state after Classify the Classification has a
\* type of the fixed query-type enumeration and a complexity in
\* {simple, complex}, whatever text the classifier returned; Generate
\* therefore never fails for want of a branch.
C28_ClassificationWellTyped ==
    /\ InTrace("node2_queryClassifier") =>
           /\ ~state.classification.isNull
           /\ state.classification.type \in QueryTypes
           /\ state.classification.complexity \in {"simple", "complex"}
    /\ (pc = "node3_responseGenerator") => ~node3_throws(state)

----------------------------------------------------------------------------
(* Context builder: completion order of the sub-fetches                    *)

\* what sub-fetch f resolves with for the call's inputs, given only whether
\* its store call throws
SettlesWith(f, ok) ==
    LET n == needs(builder.queryType)
    IN CASE f = "trends" -> getRecentTrends(ok, n.trendDays, builder.rows)
         [] f = "conversations" ->
                getRecentConversations(ok, n.trendDays, n.conversations, builder.stored)
         [] f = "profile" ->
                IF n.includeProfile THEN getFarmerProfile(ok) ELSE Fulfilled(JsNull)
         [] f = "irrigation" ->
                IF n.includeIrrigation THEN getIrrigationHistory(ok, 3) ELSE Fulfilled(JsNull)
         [] f = "anomalies" ->
                IF n.includeAnomalies
                THEN detectAnomalies(ok, builder.rows, builder.extreme)
                ELSE Fulfilled(<< >>)
         [] f = "similar" -> getSimilarQueries(ok, builder.queryType, 2, builder.stored)

\* C29: the sub-fetches are started together and Context returns only after
\* every one of them has completed or degraded; the bundle is the same for
\* every order in which they complete (it is the bundle determined by the
\* inputs and the set of failing fetches alone).
C29_OrderIndependentBundle ==
    /\ (builder.idle = FALSE /\ builder.first = "none") =>
           \A f \in Fetches : builder.got[f] = Pending
    /\ (builder.idle = FALSE /\ builder.at = "returned") =>
           /\ \A f \in Fetches : builder.got[f].status \in {"fulfilled", "rejected"}
           /\ builder.bundle =
                  buildEnrichedContext(builder.query, builder.queryType,
                                       builder.currentSensors,
                                       [f \in Fetches |-> SettlesWith(f, f \notin builder.failed)])

\* the similar-queries fetch, pushed last, settled first; the trends fetch,
\* pushed first, failed
C29_Witness ==
    /\ builder.idle = FALSE /\ builder.at = "returned"
    /\ builder.first = "similar"
    /\ builder.failed = {"trends"}
    /\ builder.queryType = "watering"
    /\ builder.bundle.irrigationHistory # JsNull

----------------------------------------------------------------------------
(* Context rendering: MemoryService.formatContextForAI                     *)
(*                                                                         *)
(* The text is the sequence of its non-blank lines; a line is a section    *)
(* heading or an entry of the section it stands in.  An array that may be  *)
(* missing from the bundle is Array(items) or JsNull.                      *)

MaxAnomalies == 4     \* anomalies in a bundle
MaxHistory == 3       \* past conversations in a bundle

Array(items) == [kind |-> "array", items |-> items]

Header(section) == << [section |-> section, kind |-> "heading", text |-> section] >>

Entries(section, texts) ==
    [i \in 1..Len(texts) |-> [section |-> section, kind |-> "entry", text |-> texts[i]]]

Messages(items) == [i \in 1..Len(items) |-> items[i].message]

\* the lines of the sensor block
SensorLines ==
    << "Moisture", "PH", "Nitrogen", "Phosphorus", "Potassium", "Temperature",
       "Humidity", "Crop", "Motor Status", "Mode" >>

\* Object.entries(trends): the metrics in the order getTrends inserts them
TrendOrder == << "moisture", "ph", "nitrogen", "phosphorus", "potassium", "temperature" >>

\* variant: every anomaly is listed
formatContextForAI_uncapped(ctx) ==
    LET trendLines ==
            IF ctx.trends # JsNull /\ DOMAIN ctx.trends.metrics # {}
            THEN Header("RECENT TRENDS")
                     \o Entries("RECENT TRENDS",
                                SelectSeq(TrendOrder,
                                          LAMBDA m : m \in DOMAIN ctx.trends.metrics))
            ELSE << >>
        issueLines ==
            IF ctx.anomalies # JsNull /\ Len(ctx.anomalies.items) > 0
            THEN Header("DETECTED ISSUES")
                     \o Entries("DETECTED ISSUES",
                                Messages(slice(ctx.anomalies.items, Len(ctx.anomalies.items))))
            ELSE << >>
        historyLines ==
            IF ctx.pastConversations # JsNull /\ Len(ctx.pastConversations.items) > 0
            THEN Header("RECENT HISTORY")
                     \o Entries("RECENT HISTORY",
                                Messages(slice(ctx.pastConversations.items, 2)))
            ELSE << >>
        irrigationLines ==
            IF ctx.irrigationHistory # JsNull
            THEN Header("IRRIGATION PATTERN")
                     \o Entries("IRRIGATION PATTERN",
                                << "Recent" >> \o (IF ctx.irrigationHistory.pattern
                                                   THEN << "pattern" >> ELSE << >>))
            ELSE << >>
        profileLines ==
            IF ctx.farmerProfile # JsNull /\ Len(ctx.farmerProfile.preferredMethods) > 0
            THEN Header("FARMER PREFERENCES")
                     \o Entries("FARMER PREFERENCES",
                                << "Methods" >> \o (IF Len(ctx.farmerProfile.topIssues) > 0
                                                    THEN << "Common Issues" >> ELSE << >>))
            ELSE << >>
    IN Header("QUERY TYPE")
           \o Header("CURRENT SENSOR DATA") \o Entries("CURRENT SENSOR DATA", SensorLines)
           \o trendLines \o issueLines \o historyLines \o irrigationLines \o profileLines

formatContextForAI(ctx) ==
    LET trendLines ==
            IF ctx.trends # JsNull /\ DOMAIN ctx.trends.metrics # {}
            THEN Header("RECENT TRENDS")
                     \o Entries("RECENT TRENDS",
                                SelectSeq(TrendOrder,
                                          LAMBDA m : m \in DOMAIN ctx.trends.metrics))
            ELSE << >>
        issueLines ==
            IF ctx.anomalies # JsNull /\ Len(ctx.anomalies.items) > 0
            THEN Header("DETECTED ISSUES")
                     \o Entries("DETECTED ISSUES",
                                Messages(slice(ctx.anomalies.items, 3)))
            ELSE << >>
        historyLines ==
            IF ctx.pastConversations # JsNull /\ Len(ctx.pastConversations.items) > 0
            THEN Header("RECENT HISTORY")
                     \o Entries("RECENT HISTORY",
                                Messages(slice(ctx.pastConversations.items, 2)))
            ELSE << >>
        irrigationLines ==
            IF ctx.irrigationHistory # JsNull
            THEN Header("IRRIGATION PATTERN")
                     \o Entries("IRRIGATION PATTERN",
                                << "Recent" >> \o (IF ctx.irrigationHistory.pattern
                                                   THEN << "pattern" >> ELSE << >>))
            ELSE << >>
        profileLines ==
            IF ctx.farmerProfile # JsNull /\ Len(ctx.farmerProfile.preferredMethods) > 0
            THEN Header("FARMER PREFERENCES")
                     \o Entries("FARMER PREFERENCES",
                                << "Methods" >> \o (IF Len(ctx.farmerProfile.topIssues) > 0
                                                    THEN << "Common Issues" >> ELSE << >>))
            ELSE << >>
    IN Header("QUERY TYPE")
           \o Header("CURRENT SENSOR DATA") \o Entries("CURRENT SENSOR DATA", SensorLines)
           \o trendLines \o issueLines \o historyLines \o irrigationLines \o profileLines

\* bundles handed to the rendering
RenderTrends ==
    { JsNull,
      [kind |-> "object", metrics |-> << >>],
      [kind |-> "object",
       metrics |-> [m \in {"moisture", "ph"} |-> [direction |-> "increasing", change |-> 1]]] }

RenderIrrigation ==
    { JsNull,
      [kind |-> "object", totalEvents |-> 0, pattern |-> TRUE] }

RenderProfiles ==
    { JsNull,
      [kind |-> "object", preferredMethods |-> << >>, topIssues |-> << "low_ph" >>],
      [kind |-> "object", preferredMethods |-> << "organic" >>, topIssues |-> << >>],
      [kind |-> "object", preferredMethods |-> << "organic" >>, topIssues |-> << "low_ph" >>] }

ItemsUpTo(n, tag) ==
    {JsNull} \cup {Array([i \in 1..k |-> [message |-> <<tag, i>>]]) : k \in 0..n}

RenderInit ==
    /\ \E trends \in RenderTrends, anomalies \in ItemsUpTo(MaxAnomalies, "anomaly"),
          pastConversations \in ItemsUpTo(MaxHistory, "conversation"),
          irrigationHistory \in RenderIrrigation, farmerProfile \in RenderProfiles :
          builder = [idle |-> FALSE, at |-> "built",
                     bundle |-> [queryType |-> "general", currentSensors |-> "snapshot",
                                 trends |-> trends, anomalies |-> anomalies,
                                 pastConversations |-> pastConversations,
                                 irrigationHistory |-> irrigationHistory,
                                 farmerProfile |-> farmerProfile],
                     text |-> << >>]
    /\ PipelineInit /\ ProfileIdle /\ SeriesIdle /\ FormatterIdle

\* _handleSimpleQuery / _handleComplexQuery: formatContextForAI(enrichedContext)
FormatContextForAI ==
    /\ builder.at = "built"
    /\ builder' = [builder EXCEPT !.at = "rendered",
                                  !.text = formatContextForAI(builder.bundle)]
    /\ UNCHANGED <<pipeline, profile, series, formatter>>

RenderNext == FormatContextForAI

RenderSpec == RenderInit /\ [][RenderNext]_vars


\* the sections of the rendering, in the order they are to appear
SectionOrder ==
    << "CURRENT SENSOR DATA", "RECENT TRENDS", "DETECTED ISSUES", "RECENT HISTORY",
       "IRRIGATION PATTERN", "FARMER PREFERENCES" >>

Rank(section) == CHOOSE i \in 1..Len(SectionOrder) : SectionOrder[i] = section

Sectioned(line) == \E i \in 1..Len(SectionOrder) : SectionOrder[i] = line.section

\* the section is emitted: its heading occurs in the text
Emitted(section) ==
    \E i \in 1..Len(builder.text) :
        builder.text[i].kind = "heading" /\ builder.text[i].section = section

\* the number of entries the text lists under the section
Listed(section) ==
    Cardinality({i \in 1..Len(builder.text) :
                    builder.text[i].kind = "entry" /\ builder.text[i].section = section})

\* the array is there and holds something
NonEmpty(array) == array # JsNull /\ Len(array.items) > 0

Rendered == builder.idle = FALSE /\ builder.at = "rendered"

\* C30: the rendering emits its sections in the fixed order current sensors,
\* recent trends, detected issues, recent history, irrigation pattern, farmer
\* preferences; current sensors is always present, each other section is
\* omitted exactly when its data is absent or empty, detected issues lists at
\* most 3 anomalies and recent history at most 2 conversations.
C30_RenderedSections ==
    Rendered =>
        LET text == builder.text
            ctx == builder.bundle
        IN /\ \A i, j \in 1..Len(text) :
                  (i < j /\ Sectioned(text[i]) /\ Sectioned(text[j]))
                      => Rank(text[i].section) <= Rank(text[j].section)
           /\ \A i \in 1..Len(text) :
                  (Sectioned(text[i]) /\ text[i].kind = "heading")
                      => \A j \in 1..Len(text) :
                             (j # i /\ text[j].section = text[i].section)
                                 => j > i /\ text[j].kind = "entry"
           /\ Emitted("CURRENT SENSOR DATA")
           /\ Emitted("RECENT TRENDS")
                  <=> (ctx.trends # JsNull /\ DOMAIN ctx.trends.metrics # {})
           /\ Emitted("DETECTED ISSUES") <=> NonEmpty(ctx.anomalies)
           /\ Emitted("RECENT HISTORY") <=> NonEmpty(ctx.pastConversations)
           /\ Emitted("IRRIGATION PATTERN") <=> ctx.irrigationHistory # JsNull
           /\ Emitted("FARMER PREFERENCES")
                  <=> (ctx.farmerProfile # JsNull
                         /\ Len(ctx.farmerProfile.preferredMethods) > 0)
           /\ NonEmpty(ctx.anomalies) =>
                  Listed("DETECTED ISSUES") = Min(Len(ctx.anomalies.items), 3)
           /\ NonEmpty(ctx.pastConversations) =>
                  Listed("RECENT HISTORY") = Min(Len(ctx.pastConversations.items), 2)
           /\ \A section \in {"RECENT TRENDS", "DETECTED ISSUES", "RECENT HISTORY",
                              "IRRIGATION PATTERN", "FARMER PREFERENCES"} :
                  ~Emitted(section) => Listed(section) = 0

\* a bundle with every kind of data, more anomalies and conversations than
\* the rendering lists
C30_Witness ==
    /\ Rendered
    /\ NonEmpty(builder.bundle.anomalies)
    /\ Len(builder.bundle.anomalies.items) = 4
    /\ NonEmpty(builder.bundle.pastConversations)
    /\ Len(builder.bundle.pastConversations.items) = 3
    /\ \A i \in 2..Len(SectionOrder) : Emitted(SectionOrder[i])


----------------------------------------------------------------------------
(* Response formatter: the action list of an answer made of list entries   *)

MaxEntries == 6       \* lines of a listed answer

\* a body of n characters
Padded(n) == [i \in 1..n |-> "x"]

\* the line of an entry: its marker, a space and its body; an unmarked line
\* is its body alone
Line(entry) ==
    CASE entry.marker = "numbered" -> << "1", ".", " " >> \o entry.body
      [] entry.marker = "bulleted" -> << "-", " " >> \o entry.body
      [] entry.marker = "none" -> entry.body

\* short lines of a listed answer
ShortEntries ==
    { [marker |-> "numbered", body |-> << "A", "p", "p", "l", "y", " ", "u", "r",
                                           "e", "a", " ", "n", "o", "w" >>],
      [marker |-> "bulleted", body |-> << "W", "a", "t", "e", "r", " ", "t", "h",
                                           "e", " ", "f", "i", "e", "l", "d" >>],
      [marker |-> "numbered", body |-> << "T", "o", "o", " ", "s", "h", "o", "r",
                                           "t" >>],
      [marker |-> "none", body |-> << "S", "o", "i", "l", " ", "i", "s", " ", "d",
                                       "r", "y", " ", "a", "g", "a", "i", "n" >>] }

\* entries whose length is at an end of the accepted range
EdgeEntries ==
    { [marker |-> m, body |-> Padded(n)] :
          m \in {"numbered", "bulleted"}, n \in {10, 11, 149, 150} }

RECURSIVE JoinEntries(_)
\* the lines of the entries joined by line ends
JoinEntries(entries) ==
    IF entries = << >> THEN << >>
    ELSE IF Len(entries) = 1 THEN Line(entries[1])
    ELSE Line(entries[1]) \o << "\n" >> \o JoinEntries(Tail(entries))

ListedAnswer(entries) ==
    [idle |-> FALSE, lines |-> entries, response |-> JoinEntries(entries),
     extracted |-> FALSE, actions |-> << >>]

ActionListInit ==
    /\ \/ \E n \in 0..MaxEntries : \E entries \in [1..n -> ShortEntries] :
             formatter = ListedAnswer(entries)
       \/ \E edge \in EdgeEntries : \E n \in 0..2 : \E entries \in [1..n -> ShortEntries] :
             formatter = ListedAnswer(<< edge >> \o entries)
    /\ PipelineInit /\ ProfileIdle /\ BuilderIdle /\ SeriesIdle

ActionListSpec == ActionListInit /\ [][FormatterNext]_vars

\* the bodies of the entries with the marker, in order of appearance
Marked(entries, marker) ==
    LET bodies == [i \in 1..Len(entries) |-> entries[i]]
    IN SelectSeq(bodies, LAMBDA e : e.marker = marker)

\* the action texts the answer is to yield
ExpectedActions(entries) ==
    LET matches == Marked(entries, "numbered") \o Marked(entries, "bulleted")
        kept == SelectSeq(matches, LAMBDA e : Len(e.body) > 10 /\ Len(e.body) < 150)
    IN [i \in 1..Min(Len(kept), 5) |-> kept[i].body]

\* C31: action extraction keeps only numbered or bulleted entries whose
\* length is strictly between 10 and 150 characters, lists all numbered
\* matches in order of appearance before all bulleted matches in order of
\* appearance, and returns at most the first 5 entries of that list.
C31_ActionList ==
    (formatter.idle = FALSE /\ formatter.extracted) =>
        /\ Len(formatter.actions) <= 5
        /\ [i \in 1..Len(formatter.actions) |-> formatter.actions[i].action]
               = ExpectedActions(formatter.lines)

\* six entries of both kinds, bulleted first, cut to five actions
C31_Witness ==
    /\ formatter.idle = FALSE /\ formatter.extracted
    /\ Len(formatter.lines) = 6
    /\ formatter.lines[1].marker = "bulleted"
    /\ \A i \in 1..6 : Len(formatter.lines[i].body) > 10
                          /\ formatter.lines[i].marker # "none"
    /\ Len(formatter.actions) = 5
    /\ \E i \in 1..6 : formatter.lines[i].marker = "numbered"


----------------------------------------------------------------------------
(* Response formatter: AIService._extractAlerts                            *)
(*                                                                         *)
(* The warning sign that prefixes an anomaly alert is written "warning".   *)

MaxSentences == 3     \* sentences of an answer

criticalKeywords ==
    { << "c", "r", "i", "t", "i", "c", "a", "l" >>,
      << "d", "a", "n", "g", "e", "r", "o", "u", "s" >>,
      << "m", "u", "s", "t" >>,
      << "i", "m", "m", "e", "d", "i", "a", "t", "e", "l", "y" >>,
      << "u", "r", "g", "e", "n", "t" >> }

\* the characters that end a sentence of the critical-sentence pattern
Terminators == {".", "!", "?"}

RECURSIVE Segments(_)
\* the successive runs of text up to and including a terminator; text after
\* the last terminator belongs to no run
Segments(text) ==
    LET ends == {i \in 1..Len(text) : text[i] \in Terminators}
    IN IF ends = {} THEN << >>
       ELSE LET e == CHOOSE i \in ends : \A j \in ends : i <= j
            IN << SubSeq(text, 1, e) >> \o Segments(SubSeq(text, e + 1, Len(text)))

\* response.match(/[^.!?]*(?:critical|dangerous|must|immediately|urgent)[^.!?]*[.!?]/gi)
criticalSentences(response) ==
    SelectSeq(Segments(response),
              LAMBDA run : \E k \in criticalKeywords : includes(toLowerCase(run), k))

RECURSIVE PushNew(_, _)
\* sentences.forEach: push the trimmed sentence unless the list includes it
PushNew(alerts, sentences) ==
    IF sentences = << >> THEN alerts
    ELSE LET clean == trim(Head(sentences))
         IN PushNew(IF \E i \in 1..Len(alerts) : alerts[i] = clean THEN alerts
                    ELSE Append(alerts, clean),
                    Tail(sentences))

AnomalyAlert(a) == << "warning", " ", " " >> \o a.message

_extractAlerts(response, enrichedContext) ==
    LET anomalies == enrichedContext.anomalies
        highs == IF anomalies # JsNull /\ Len(anomalies.items) > 0
                 THEN SelectSeq(anomalies.items, LAMBDA a : a.severity = "high")
                 ELSE << >>
        alerts == [i \in 1..Len(highs) |-> AnomalyAlert(highs[i])]
        responseLower == toLowerCase(response)
    IN slice(IF \E k \in criticalKeywords : includes(responseLower, k)
             THEN PushNew(alerts, slice(criticalSentences(response), 2))
             ELSE alerts,
             3)

\* sentences an answer is made of
AnswerSentences ==
    << << "Y", "o", "u", " ", "m", "u", "s", "t", " ", "i", "r", "r", "i",
          "g", "a", "t", "e", "." >>,
       << " ", "I", "t", " ", "i", "s", " ", "U", "R", "G", "E", "N", "T",
          "!" >>,
       << " ", "A", "c", "t", " ", "i", "m", "m", "e", "d", "i", "a", "t",
          "e", "l", "y", "?" >>,
       << " ", "S", "o", "i", "l", " ", "i", "s", " ", "f", "i", "n", "e",
          "." >>,
       << " ", "Y", "o", "u", " ", "m", "u", "s", "t", " ", "i", "r", "r",
          "i", "g", "a", "t", "e", "." >> >>

\* an answer's last words, without a terminator
OpenEnding ==
    << " ", "T", "h", "i", "s", " ", "i", "s", " ", "c", "r", "i", "t", "i",
       "c", "a", "l" >>

\* the anomalies detectAnomalies reports, in the order it tests for them
AnomalyKinds ==
    << [type |-> "moisture_change", severity |-> "high",
        message |-> << "M", "o", "i", "s", "t", "u", "r", "e", " ", "d",
                       "e", "c", "r", "e", "a", "s", "i", "n", "g" >>],
       [type |-> "ph_change", severity |-> "medium",
        message |-> << "p", "H", " ", "i", "n", "c", "r", "e", "a", "s",
                       "i", "n", "g" >>],
       [type |-> "nitrogen_depletion", severity |-> "high",
        message |-> << "N", "i", "t", "r", "o", "g", "e", "n", " ", "d",
                       "r", "o", "p", "p", "e", "d" >>],
       [type |-> "temperature_extreme", severity |-> "high",
        message |-> << "T", "e", "m", "p", "e", "r", "a", "t", "u", "r",
                       "e", " ", "t", "o", "o", " ", "h", "i", "g", "h" >>],
       [type |-> "temperature_extreme", severity |-> "medium",
        message |-> << "T", "e", "m", "p", "e", "r", "a", "t", "u", "r",
                       "e", " ", "t", "o", "o", " ", "l", "o", "w" >>] >>

RECURSIVE JoinSentences(_)
JoinSentences(ids) ==
    IF ids = << >> THEN << >> ELSE AnswerSentences[Head(ids)] \o JoinSentences(Tail(ids))

\* the anomaly lists a context can hold: null, or one report per type at
\* most, in the order of the tests
AnomalyLists ==
    {JsNull} \cup
    { Array(SelectSeq(AnomalyKinds, LAMBDA a : a \in chosen)) :
          chosen \in {c \in SUBSET {AnomalyKinds[i] : i \in 1..Len(AnomalyKinds)} :
                         Cardinality({a \in c : a.type = "temperature_extreme"}) <= 1} }

AlertInit ==
    /\ \E n \in 0..MaxSentences : \E ids \in [1..n -> 1..Len(AnswerSentences)] :
       \E open \in BOOLEAN : \E anomalies \in AnomalyLists :
          formatter = [idle |-> FALSE, sentences |-> ids, open |-> open,
                       response |-> JoinSentences(ids)
                                       \o (IF open THEN OpenEnding ELSE << >>),
                       enrichedContext |-> [anomalies |-> anomalies],
                       extracted |-> FALSE, alerts |-> << >>]
    /\ PipelineInit /\ ProfileIdle /\ BuilderIdle /\ SeriesIdle

\* node5_responseFormatter: alerts: this._extractAlerts(aiResponse, enrichedContext)
ExtractAlerts ==
    /\ ~formatter.extracted
    /\ formatter' = [formatter EXCEPT
                        !.extracted = TRUE,
                        !.alerts = _extractAlerts(formatter.response,
                                                  formatter.enrichedContext)]
    /\ UNCHANGED <<pipeline, profile, builder, series>>

AlertNext == ExtractAlerts

AlertSpec == AlertInit /\ [][AlertNext]_vars

\* the high-severity anomalies of the context, in context order
HighAnomalies(enrichedContext) ==
    IF enrichedContext.anomalies = JsNull THEN << >>
    ELSE SelectSeq(enrichedContext.anomalies.items, LAMBDA a : a.severity = "high")

\* the answer's sentences that contain a critical keyword, each once
RECURSIVE Distinct(_)
Distinct(texts) ==
    IF texts = << >> THEN << >>
    ELSE LET front == Distinct(SubSeq(texts, 1, Len(texts) - 1))
             last == texts[Len(texts)]
         IN IF \E i \in 1..Len(front) : front[i] = last THEN front
            ELSE Append(front, last)

CriticalSentencesOf(ids) ==
    LET critical == SelectSeq([i \in 1..Len(ids) |-> AnswerSentences[ids[i]]],
                              LAMBDA t : \E k \in criticalKeywords :
                                             includes(toLowerCase(t), k))
    IN Distinct([i \in 1..Len(critical) |-> trim(critical[i])])

\* C32: the alert list starts with one distinctly prefixed entry per
\* high-severity anomaly of the context, in context order, followed by the
\* answer's sentences that contain a critical keyword; it contains no
\* duplicate entry and never has more than 3 entries.
C32_AlertList ==
    (formatter.idle = FALSE /\ formatter.extracted) =>
        LET highs == HighAnomalies(formatter.enrichedContext)
            wanted == [i \in 1..Len(highs) |-> AnomalyAlert(highs[i])]
                          \o CriticalSentencesOf(formatter.sentences)
        IN /\ formatter.alerts = slice(wanted, 3)
           /\ Len(formatter.alerts) <= 3
           /\ \A i, j \in 1..Len(formatter.alerts) :
                  formatter.alerts[i] = formatter.alerts[j] => i = j


----------------------------------------------------------------------------
(* Trend analytics on short series: calculateSlope, detectOutliers,        *)
(* calculateMovingAverage and predictNextValue of utils/trendAnalysis.js   *)
(*                                                                         *)
(* A call either returns a value or throws; averages and predictions are   *)
(* exact fractions <<numerator, denominator>>.                             *)

Returned(value) == [threw |-> FALSE, value |-> value]

Threw(error) == [threw |-> TRUE, error |-> error]

NotCalled == [threw |-> FALSE, called |-> FALSE]

\* calculateMovingAverage(data, field, window = 5): the mean of the samples
\* from max(0, i - window + 1) to i, for every i
calculateMovingAverage(data, window) ==
    [i \in 1..Len(data) |->
        LET start == IF i - window + 1 > 1 THEN i - window + 1 ELSE 1
            windowData == SubSeq(data, start, i)
        IN << SumTo(windowData, Len(windowData)), Len(windowData) >>]

\* predictNextValue(data, field, stepsAhead = 1): data[data.length - 1] is
\* undefined for an empty series and reading its field throws
predictNextValue(data, stepsAhead) ==
    LET slope == calculateSlope(data)
    IN IF Len(data) = 0 THEN Threw("TypeError")
       ELSE Returned(<< data[Len(data)] * slope[2] + slope[1] * stepsAhead, slope[2] >>)

AnalyticsFunctions ==
    {"calculateSlope", "detectOutliers", "calculateMovingAverage", "predictNextValue"}

AnalyticsInit ==
    /\ \E n \in 0..MaxLen : \E data \in [1..n -> 0..MaxValue] :
          series = [idle |-> FALSE, data |-> data,
                    results |-> [f \in AnalyticsFunctions |-> NotCalled]]
    /\ PipelineInit /\ ProfileIdle /\ BuilderIdle /\ FormatterIdle

\* a caller applies one of the functions to the series
Calls(f, outcome) ==
    /\ series.results[f] = NotCalled
    /\ series' = [series EXCEPT !.results[f] = outcome]
    /\ UNCHANGED <<pipeline, profile, builder, formatter>>

CallCalculateSlope == Calls("calculateSlope", Returned(calculateSlope(series.data)))

CallDetectOutliers == Calls("detectOutliers", Returned(detectOutliers(series.data).outliers))

CallCalculateMovingAverage ==
    Calls("calculateMovingAverage", Returned(calculateMovingAverage(series.data, 5)))

CallPredictNextValue == Calls("predictNextValue", predictNextValue(series.data, 1))

AnalyticsNext ==
    \/ CallCalculateSlope
    \/ CallDetectOutliers
    \/ CallCalculateMovingAverage
    \/ CallPredictNextValue

AnalyticsSpec == AnalyticsInit /\ [][AnalyticsNext]_vars

HasReturned(f) == series.results[f] # NotCalled /\ ~series.results[f].threw

HasThrown(f) == series.results[f] # NotCalled /\ series.results[f].threw

\* C33: no function of the trend analytics faults on an empty or
\* single-sample series: slope, outlier detection, moving average and
\* next-value prediction all return a neutral or zero output for such
\* input (slope 0, no outlier, the samples as their own averages, the last
\* sample as the prediction).
C33_ShortSeriesNeverFault ==
    (series.idle = FALSE /\ Len(series.data) < 2) =>
        /\ \A f \in AnalyticsFunctions : ~HasThrown(f)
        /\ HasReturned("calculateSlope") => series.results["calculateSlope"].value[1] = 0
        /\ HasReturned("detectOutliers") => series.results["detectOutliers"].value = << >>
        /\ HasReturned("calculateMovingAverage") =>
               series.results["calculateMovingAverage"].value
                   = [i \in 1..Len(series.data) |-> << series.data[i], 1 >>]
        /\ (HasReturned("predictNextValue") /\ Len(series.data) = 1) =>
               series.results["predictNextValue"].value = << series.data[1], 1 >>


----------------------------------------------------------------------------
(* Anomaly rules: the body of MemoryService.detectAnomalies                 *)
(*                                                                         *)
(* pH changes are in tenths; the other quantities are in their own units.  *)

\* the try block once the 7-day trends and averages have been fetched
anomalyRules(trends, averages, currentSensors) ==
    LET Abs(x) == IF x < 0 THEN -x ELSE x
        rule(fires, type, severity) ==
            IF fires THEN << [type |-> type, severity |-> severity] >> ELSE << >>
    IN IF trends = JsNull \/ averages = JsNull THEN << >>
       ELSE rule(Abs(trends.moisture.change) > 20, "moisture_change", "high")
            \o rule(Abs(trends.ph.change) > 5, "ph_change", "medium")
            \o rule(trends.nitrogen.change < -30, "nitrogen_depletion", "high")
            \o rule(currentSensors.temperature > 35 \/ currentSensors.temperature < 10,
                    "temperature_extreme",
                    IF currentSensors.temperature > 35 THEN "high" ELSE "medium")

\* 7-day trends: none with fewer than two hourly rows, else the changes of
\* moisture, pH (tenths) and nitrogen around the limits of the rules
WeekTrends ==
    {JsNull} \cup
    { [kind |-> "object", moisture |-> [change |-> m], ph |-> [change |-> p],
       nitrogen |-> [change |-> n]] :
          m \in {-21, -20, 0, 20, 21}, p \in {-6, -5, 0, 5, 6}, n \in {-31, -30, 0, 31} }

\* getHistoricalAverages: the aggregate's row, or null
WeekAverages == {JsNull, [kind |-> "object"]}

Temperatures == {9, 10, 22, 35, 36}

AnomalyInit ==
    /\ \E trends \in WeekTrends, averages \in WeekAverages, temperature \in Temperatures :
          builder = [idle |-> FALSE, at |-> "fetched", trends |-> trends,
                     averages |-> averages,
                     currentSensors |-> [temperature |-> temperature],
                     anomalies |-> << >>]
    /\ PipelineInit /\ ProfileIdle /\ SeriesIdle /\ FormatterIdle

ApplyAnomalyRules ==
    /\ builder.at = "fetched"
    /\ builder' = [builder EXCEPT
                      !.at = "detected",
                      !.anomalies = anomalyRules(builder.trends, builder.averages,
                                                 builder.currentSensors)]
    /\ UNCHANGED <<pipeline, profile, series, formatter>>

AnomalyNext == ApplyAnomalyRules

AnomalySpec == AnomalyInit /\ [][AnomalyNext]_vars

Reports(type) ==
    \E i \in 1..Len(builder.anomalies) : builder.anomalies[i].type = type

\* C34: anomaly detection returns a nitrogen anomaly exactly when nitrogen
\* dropped by more than 30, a pH anomaly exactly when the pH change exceeds
\* 0.5 in absolute value, a moisture anomaly exactly when the moisture change
\* exceeds 20 in absolute value, and a temperature anomaly exactly when the
\* snapshot temperature is outside [10,35]; each rule fires whatever the
\* other rules do and whether or not the other data is available, with a
\* severity that is medium or high.
C34_AnomalyRules ==
    (builder.idle = FALSE /\ builder.at = "detected") =>
        /\ builder.trends # JsNull =>
              /\ Reports("nitrogen_depletion") <=> builder.trends.nitrogen.change < -30
              /\ Reports("ph_change")
                     <=> (builder.trends.ph.change > 5 \/ builder.trends.ph.change < -5)
              /\ Reports("moisture_change")
                     <=> (builder.trends.moisture.change > 20
                             \/ builder.trends.moisture.change < -20)
        /\ Reports("temperature_extreme")
               <=> (builder.currentSensors.temperature < 10
                       \/ builder.currentSensors.temperature > 35)
        /\ \A i \in 1..Len(builder.anomalies) :
               builder.anomalies[i].severity \in {"medium", "high"}


----------------------------------------------------------------------------
(* Trend records of a bundle against the analytics                         *)

\* C35: the direction of every trend record placed in a context bundle is
\* the one the analytics direction rule gives for the least-squares slope of
\* the same window of samples: increasing iff slope > epsilon, decreasing
\* iff slope < -epsilon, otherwise stable.
C35_BundleDirectionFromSlope ==
    (series.idle = FALSE /\ "trend" \in series.computed /\ series.trend # JsNull) =>
        series.trend.direction = getTrendDirection(calculateSlope(series.data))


----------------------------------------------------------------------------
(* Pipeline: the query type the bundle is built for                        *)

\* C36: every run builds its context bundle with query type "general":
\* Context runs before Classify and the initial state fixes the type, so
\* the bundle is the same whatever type the classifier later assigns to the
\* question.
C36_BundleBuiltAsGeneral ==
    /\ trace # << >> => trace[1] = "node1_contextBuilder"
    /\ InTrace("node2_queryClassifier") => InTrace("node1_contextBuilder")
    /\ InTrace("node1_contextBuilder") => calls.context = "general"
    /\ calls.context \in {"none", "general"}

\* a returned run whose question was classified as a watering question
C36_Witness ==
    /\ pc = "returned"
    /\ state.enrichedContext = "enriched"
    /\ ~state.classification.isNull /\ state.classification.type = "watering"
    /\ calls.context = "general"


----------------------------------------------------------------------------
(* Pipeline: what the conversation record holds                            *)

\* the step writes the conversation record (Conversation.create succeeds)
WritesRecord == store'.conversations = store.conversations + 1

\* the judgement of the state is a score the judge gave
ScoredByJudge(s) ==
    /\ ~s.judgement.isNull
    /\ s.judgement.reasoning = "judge reasoning"
    /\ s.judgement.score # NoScore

\* C37: the judge score (and confidence) persisted in a conversation record
\* is the score the judge gave to the very answer text persisted in that
\* record, also when the answer was replaced by a retry.
C37_ScoreOfPersistedAnswer ==
    [][(WritesRecord /\ ScoredByJudge(state)) => calls.judged = state.aiResponse]_vars


\* C38: whenever a run has written its conversation record to the store,
\* the result returned to the caller carries that record's id as
\* conversation id, also when the profile update that follows the write
\* fails.
C38_WrittenRecordIdReturned ==
    (pc = "returned" /\ store.conversations >= 1) =>
        /\ "conversationId" \in DOMAIN result
        /\ result.conversationId = "conv_1"


----------------------------------------------------------------------------
(* Farmer profile: failed outcomes                                         *)

\* C39: updateOutcome with a failed outcome appends the action to the
\* farmer's failed-action list, as a successful outcome is appended to the
\* successful-action list, so that after the call response_rate equals
\* successes / (successes + failures).
C39_FailedOutcomeRecorded ==
    [][(profile.idle = FALSE /\ profile'.lastOp = "failure") =>
           LET doc == profile'.doc
               total == doc.successful_actions + doc.failed_actions
           IN /\ doc.failed_actions = profile.doc.failed_actions + 1
              /\ doc.successful_actions = profile.doc.successful_actions
              /\ doc.response_rate[1] * total
                     = doc.successful_actions * doc.response_rate[2]]_vars


----------------------------------------------------------------------------
(* Farmer profile: FarmProfile.getOrCreate for a farmer without a profile, *)
(* called by storeConversation of runs that persist at once.               *)
(*                                                                         *)
(* userId is declared unique; the index that enforces it is built by the   *)
(* database in the background, so it is there or not when the runs arrive. *)

FirstRunsInit ==
    /\ \E types \in [RunIds -> RunTypes], unique \in BOOLEAN :
          profile = [idle |-> FALSE, unique |-> unique, documents |-> 0,
                     conversations |-> 0,
                     runs |-> [r \in RunIds |-> [at |-> "persisting",
                                                 queryType |-> types[r]]]]
    /\ PipelineInit /\ BuilderIdle /\ SeriesIdle /\ FormatterIdle

\* run r moves from one point of storeConversation to another
Moves(r, from, to) ==
    /\ profile.runs[r].at = from
    /\ UNCHANGED <<pipeline, builder, series, formatter>>

\* storeConversation: Conversation.create(conversationData)
CreateConversation(r) ==
    /\ Moves(r, "persisting", "written")
    /\ profile' = [profile EXCEPT !.runs[r].at = "written",
                                  !.conversations = @ + 1]

\* getOrCreate: this.findOne({ userId })
FindOne(r) ==
    /\ Moves(r, "written", "looked up")
    /\ profile' = [profile EXCEPT
                      !.runs[r].at = IF profile.documents > 0 THEN "obtained"
                                     ELSE "missing"]

\* getOrCreate: this.create({ userId, ... }); with the unique index in
\* place a second document for the userId is refused (duplicate key), the
\* rejection leaves getOrCreate and storeConversation rethrows it
CreateProfile(r) ==
    /\ Moves(r, "missing", "created")
    /\ profile' = IF profile.unique /\ profile.documents > 0
                  THEN [profile EXCEPT !.runs[r].at = "complete_with_error"]
                  ELSE [profile EXCEPT !.runs[r].at = "obtained",
                                       !.documents = @ + 1]

\* storeConversation: profile.incrementQueryType(queryType), return
IncrementQueryType(r) ==
    /\ Moves(r, "obtained", "complete")
    /\ profile' = [profile EXCEPT !.runs[r].at = "complete"]

FirstRunsNext ==
    \E r \in RunIds :
        \/ CreateConversation(r)
        \/ FindOne(r)
        \/ CreateProfile(r)
        \/ IncrementQueryType(r)

FirstRunsSpec == FirstRunsInit /\ [][FirstRunsNext]_vars

\* C40: for concurrent get-or-create calls on a farmer who has no profile
\* yet, exactly one profile is created and every caller obtains it: none of
\* the calls fails and no run's Persist ends in complete_with_error because
\* of it.
C40_OneProfileForAll ==
    profile.idle = FALSE =>
        /\ profile.documents <= 1
        /\ \A r \in RunIds : profile.runs[r].at # "complete_with_error"
        /\ (\A r \in RunIds : profile.runs[r].at \in {"obtained", "complete"})
               => profile.documents = 1

====
